---- MODULE Spec2Model ----
(***************************************************************************)
(* Model of the plant-competition simulator: the per-cell container        *)
(* PlantArray (simulation_utils/plants.py) and the grid engine Board       *)
(* (simulation_utils/board.py).                                            *)
(*                                                                         *)
(* Python objects are records; object identity (the `==` of classes that   *)
(* define no __eq__) is the field oid.  Probabilities and density          *)
(* coefficients are integers in units of 1/64 and a draw of                *)
(* random.random() is an integer in 0..63: the floats k/64 and the sums,   *)
(* products and differences the code forms of them are exact, so the       *)
(* float comparison of updateTick is the integer comparison.               *)
(*                                                                         *)
(* The specifications:                                                     *)
(*   Spec       a board built by Board.__init__ and run by Board.update;   *)
(*   SpecRun    Simulation.run, useBoard, saveBoard and loadBoard;         *)
(*   SpecArray  one PlantArray driven through addPlant, addAdult,          *)
(*              mergeArray, update, mergeDict and toDict by a caller;      *)
(*   SpecPlant  one Plant whose update is called by a caller;              *)
(*   SpecSeeds  one PlantArray whose produceSeeds is called by a caller;   *)
(*   SpecWide   makeNeighborDicts on a board with interior cells;          *)
(*   SpecDisperse  the dispersal loop of Board.update for one tile;        *)
(*   SpecSpecies  the class Species constructed by a caller;               *)
(*   SpecScenario  one tick of a 3x3 board with one resident Adult;        *)
(*   SpecStaging  one container filled through addPlant and addAdult;      *)
(*   SpecBuild  Board.__init__ in adult-dispersal mode, step by step.      *)
(***************************************************************************)
EXTENDS Integers, Sequences, FiniteSets, TLC

\* ------------------------------------------------------------------ bounds
StorageLimit == 2      \* storageLimit every container is built with
BoardLength  == 2      \* side length of the board
MaxStart     == 1      \* largest startNumber (founders per species)
MaxTime      == 3      \* ticks of Board.update explored
MaxPlants    == 3      \* Plant objects offered in one run of the container
MaxTicks     == 2      \* PlantArray.update calls in one run of the container

\* ----------------------------------------------------------------- species
\* The species catalogue handed to the simulation.  Species.speciesID is a
\* class counter that starts at 1, so the k-th species created has id k.
\* In 64ths: species 1 has seedPerTick 1.0 and adultPerTick 0.90625, species
\* 2 seedPerTick 0.796875, adultPerTick 1.0, conNDD 0.046875, hetNDD 0.09375.
SpeciesList ==
  << [speciesID |-> 1, t1 |-> 2, ns |-> 2,
      seedPerTick |-> 64, adultPerTick |-> 58, conNDD |-> 0, hetNDD |-> 0],
     [speciesID |-> 2, t1 |-> 1, ns |-> 1,
      seedPerTick |-> 51, adultPerTick |-> 64, conNDD |-> 3, hetNDD |-> 6] >>

SpeciesIDs == {SpeciesList[k].speciesID : k \in 1..Len(SpeciesList)}

\* The species of the one-founder scenario, p1 = p2 = 1.0 (a per-tick survival
\* of 64 64ths), created after the catalogue.
ScenarioSpecies ==
  [speciesID |-> Len(SpeciesList) + 1, t1 |-> 3, ns |-> 1,
   seedPerTick |-> 64, adultPerTick |-> 64, conNDD |-> 0, hetNDD |-> 0]

SpeciesOf(id) ==
  IF id = ScenarioSpecies.speciesID THEN ScenarioSpecies ELSE SpeciesList[id]

\* Values random.random() can take, in 64ths (it never returns 1.0).
Draws == {0, 63}

\* ------------------------------------------------------------------ plants
\* Python's None, as a record comparable with a plant.
None == [kind |-> "None", species |-> 0, age |-> 0, oid |-> 0]

Juvenile(species, age, oid) ==
  [kind |-> "Juvenile", species |-> species, age |-> age, oid |-> oid]

Adult(species, age, oid) ==
  [kind |-> "Adult", species |-> species, age |-> age, oid |-> oid]

DeadPlant(species, age, oid) ==
  [kind |-> "DeadPlant", species |-> species, age |-> age, oid |-> oid]

\* calculateNDD: multiplier 2 for a Juvenile, 1 for an Adult, 0 for the base class.
calculateNDD(plant, cNeighbors, hNeighbors) ==
  LET sp == SpeciesOf(plant.species)
      mult == IF plant.kind = "Juvenile" THEN 2
              ELSE IF plant.kind = "Adult" THEN 1 ELSE 0
  IN (mult * cNeighbors * sp.conNDD) + (mult * hNeighbors * sp.hetNDD)

\* Mutant of updateTick: a negative survival probability is clamped to 0.
updateTickClamped(plant, cNeighbors, hNeighbors, draw) ==
  LET sp == SpeciesOf(plant.species)
      base == IF plant.kind = "Juvenile" THEN sp.seedPerTick
              ELSE IF plant.kind = "Adult" THEN sp.adultPerTick ELSE 64
      p == base - calculateNDD(plant, cNeighbors, hNeighbors)
  IN draw <= (IF p < 0 THEN 0 ELSE p)

\* updateTick: the survival test of one plant for one draw.
updateTick(plant, cNeighbors, hNeighbors, draw) ==
  LET sp == SpeciesOf(plant.species)
      base == IF plant.kind = "Juvenile" THEN sp.seedPerTick
              ELSE IF plant.kind = "Adult" THEN sp.adultPerTick ELSE 64
  IN draw <= base - calculateNDD(plant, cNeighbors, hNeighbors)

\* Mutant of grows: promotion one tick late.
growsLate(plant) == plant.age > SpeciesOf(plant.species).t1

\* The promotion test of Juvenile.update (line 97), on the plant already aged.
grows(plant) == plant.age >= SpeciesOf(plant.species).t1

\* Plant.update: the plant after one tick.  `self` is the object after the
\* call (age is incremented in place), `result` the object returned; a
\* promotion and a death return a new object, whose identity is newOid.
plantUpdate(plant, cNeighbors, hNeighbors, draw, newOid) ==
  IF plant.kind = "Juvenile" THEN
    IF updateTick(plant, cNeighbors, hNeighbors, draw) THEN
      LET aged == [plant EXCEPT !.age = @ + 1] IN
      IF grows(aged)
      THEN [self |-> aged, result |-> Adult(plant.species, aged.age, newOid), fresh |-> TRUE]
      ELSE [self |-> aged, result |-> aged, fresh |-> FALSE]
    ELSE [self |-> plant, result |-> DeadPlant(plant.species, plant.age, newOid), fresh |-> TRUE]
  ELSE IF plant.kind = "Adult" THEN
    IF updateTick(plant, cNeighbors, hNeighbors, draw) THEN
      LET aged == [plant EXCEPT !.age = @ + 1] IN
      [self |-> aged, result |-> aged, fresh |-> FALSE]
    ELSE [self |-> plant, result |-> DeadPlant(plant.species, plant.age, newOid), fresh |-> TRUE]
  ELSE \* a DeadPlant inherits Plant.update and returns itself, still a DeadPlant
    LET aged == [plant EXCEPT !.age = @ + 1] IN
    [self |-> aged, result |-> aged, fresh |-> FALSE]

\* ------------------------------------------------------------ dictionaries
\* A Python dict is a function on its key set; a count list [adult, juvenile]
\* is the pair <<adult, juvenile>>.
EmptyDict == [k \in {} |-> 0]

DictPut(d, k, v) == [x \in (DOMAIN d) \cup {k} |-> IF x = k THEN v ELSE d[x]]

\* The [adultCount, juvenileCount] entry of species s in a count cache, an
\* absent key counting as [0, 0].
CacheEntry(d, s) == IF s \in DOMAIN d THEN d[s] ELSE <<0, 0>>

RECURSIVE SumOver(_, _)
SumOver(d, keys) ==
  IF keys = {} THEN 0
  ELSE LET k == CHOOSE x \in keys : TRUE IN d[k] + SumOver(d, keys \ {k})

\* sum(neighborDict.values())
SumValues(d) == SumOver(d, DOMAIN d)

\* -------------------------------------------------------------- PlantArray
PlantArray(storageLimit) ==
  [hasAdult |-> FALSE, currentAdult |-> None, storage |-> << >>,
   storageLimit |-> storageLimit, dictionaryFormat |-> EmptyDict]

\* The outcome of a method: the object afterwards and the exception raised.
Ok(arr) == [arr |-> arr, err |-> "none"]
Raise(arr, e) == [arr |-> arr, err |-> e]

\* Mutant of rejects: an Adult is let in whether or not the cell has one.
rejectsJuvenileOnly(self, plant) ==
  plant.kind = "Juvenile" /\ Len(self.storage) >= self.storageLimit

\* The condition of the early return of addPlant (lines 199-201).
rejects(self, plant) ==
  \/ (plant.kind = "Adult" /\ self.hasAdult)
  \/ (plant.kind = "Juvenile" /\ Len(self.storage) >= self.storageLimit)

\* Mutant of adultEntry: the entry of the species is written anew.
adultEntryReset(d, speciesID) == DictPut(d, speciesID, <<1, 0>>)

\* The cache after addPlant has admitted an Adult of speciesID (lines 212-216).
adultEntry(d, speciesID) ==
  IF speciesID \in DOMAIN d THEN DictPut(d, speciesID, <<1, d[speciesID][2]>>)
  ELSE DictPut(d, speciesID, <<1, 0>>)

\* addPlant(plant); r is the value random.randint draws an index from.
addPlant(self, plant, r) ==
  IF rejects(self, plant)
  THEN Ok(self)
  ELSE IF plant.kind = "Adult" THEN
    LET sid == plant.species
        finish(st, d) ==
          Ok([self EXCEPT !.storage = st, !.hasAdult = TRUE, !.currentAdult = plant,
                !.dictionaryFormat = adultEntry(d, sid)])
    IN IF Len(self.storage) >= self.storageLimit THEN
         IF Len(self.storage) = 0 THEN Raise(self, "ValueError")
         ELSE LET replacedJuvenileIndex == r % Len(self.storage)
                  d0 == self.dictionaryFormat
              IN IF replacedJuvenileIndex \notin DOMAIN d0 THEN Raise(self, "KeyError")
                 ELSE finish([self.storage EXCEPT ![replacedJuvenileIndex + 1] = plant],
                             DictPut(d0, replacedJuvenileIndex,
                                     <<d0[replacedJuvenileIndex][1],
                                       d0[replacedJuvenileIndex][2] - 1>>))
       ELSE finish(Append(self.storage, plant), self.dictionaryFormat)
  ELSE IF Len(self.storage) < self.storageLimit THEN
    LET sid == plant.species
        d == self.dictionaryFormat
    IN Ok([self EXCEPT !.storage = Append(self.storage, plant),
             !.dictionaryFormat =
                IF sid \in DOMAIN d THEN DictPut(d, sid, <<0, d[sid][2] + 1>>)
                ELSE DictPut(d, sid, <<0, 1>>)])
  ELSE Ok(self)

\* Mutant of addAdult: the append is made whatever the list holds.
addAdultAlways(self, plant) == [self EXCEPT !.storage = Append(self.storage, plant)]

\* addAdult(plant): the unchecked append of the adult-dispersal model.
addAdult(self, plant) ==
  IF Len(self.storage) < self.storageLimit
  THEN [self EXCEPT !.storage = Append(self.storage, plant)]
  ELSE self

\* mergeArray(newArray): offers every plant of newArray.storage, in order.
RECURSIVE mergeLoop(_, _, _, _)
mergeLoop(res, plants, k, r) ==
  IF k > Len(plants) \/ res.err # "none" THEN res
  ELSE mergeLoop(addPlant(res.arr, plants[k], r), plants, k + 1, r)

\* Mutant of mergeArray: the guard on two resident adults is left out.
mergeArrayUnguarded(self, newArray, r) ==
  mergeLoop(Ok(self), newArray.storage, 1, r)

\* Mutant of mergeArray: the guard returns when either side holds an adult.
mergeArrayEither(self, newArray, r) ==
  IF self.hasAdult \/ newArray.hasAdult THEN Ok(self)
  ELSE mergeLoop(Ok(self), newArray.storage, 1, r)

\* Mutant of mergeArray: the plants are merged one tick older.
mergeArrayAged(self, newArray, r) ==
  IF self.hasAdult /\ newArray.hasAdult THEN Ok(self)
  ELSE mergeLoop(Ok(self),
                 [k \in 1..Len(newArray.storage) |->
                    [newArray.storage[k] EXCEPT !.age = @ + 1]], 1, r)

mergeArray(self, newArray, r) ==
  IF self.hasAdult /\ newArray.hasAdult THEN Ok(self)
  ELSE mergeLoop(Ok(self), newArray.storage, 1, r)

\* Mutant of clear: the container is handed back as it is.
clearKeeps(self) == self

\* clear(): a fresh container with the same limit.
clear(self) == PlantArray(self.storageLimit)

\* The two counts update() hands to the update of a plant of speciesID
\* (lines 404-405).
conCount(neighborDict, speciesID) == neighborDict[speciesID] - 1

hetCount(neighborDict, speciesID) ==
  SumValues(neighborDict) - conCount(neighborDict, speciesID)

\* Mutant of died: no outcome is taken for a death.
diedNever(newPlant) == FALSE

\* The test of line 407 of update(): the plant's update returned a DeadPlant.
died(newPlant) == newPlant.kind = "DeadPlant"

\* One iteration of the loop of update() over self.storage (lines 402-422).
\* st is the local state of the call: the fields of self it has changed so
\* far, the three local collections, and the next free object identity.
updateStep(st, plant, k, neighborDict, draw) ==
  LET speciesID == plant.species IN
  IF speciesID \notin DOMAIN neighborDict THEN [st EXCEPT !.err = "KeyError"]
  ELSE
    LET u == plantUpdate(plant, conCount(neighborDict, speciesID),
                         hetCount(neighborDict, speciesID), draw, st.oid)
        newPlant == u.result
        isCurrent == (plant = st.currentAdult)
        st1 == [st EXCEPT !.storage[k] = u.self,
                          !.currentAdult = IF isCurrent THEN u.self ELSE @]
    IN IF died(newPlant) THEN
         IF isCurrent
         THEN [st1 EXCEPT !.hasAdult = FALSE, !.currentAdult = None]
         ELSE st1
       ELSE IF newPlant.kind = "Adult" THEN
         [st1 EXCEPT !.adultStorage = Append(@, newPlant),
                     !.currentAdult = IF isCurrent THEN newPlant ELSE @,
                     !.oid = IF u.fresh THEN @ + 1 ELSE @]
       ELSE
         LET d == st.newNeighborDict IN
         [st1 EXCEPT !.newStorage = Append(@, newPlant),
                     !.newNeighborDict =
                        IF speciesID \in DOMAIN d
                        THEN DictPut(d, speciesID, <<d[speciesID][1], d[speciesID][2] + 1>>)
                        ELSE DictPut(d, speciesID, <<0, 1>>)]

RECURSIVE updateLoop(_, _, _, _)
updateLoop(st, k, neighborDict, draws) ==
  IF k > Len(st.storage) \/ st.err # "none" THEN st
  ELSE updateLoop(updateStep(st, st.storage[k], k, neighborDict, draws[k]),
                  k + 1, neighborDict, draws)

\* Mutant of resolveAdult: a candidate is elected whenever there is one, the
\* surviving resident being one candidate among the others.
resolveAdultReelect(self, st, e) ==
  LET elects == Len(st.adultStorage) > 0
      currentAdult == IF elects THEN st.adultStorage[(e % Len(st.adultStorage)) + 1]
                      ELSE st.currentAdult
      d == st.newNeighborDict
  IN [self EXCEPT
        !.hasAdult = elects,
        !.currentAdult = currentAdult,
        !.storage = IF elects THEN Append(st.newStorage, currentAdult)
                    ELSE st.newStorage,
        !.dictionaryFormat =
           IF ~elects THEN d
           ELSE DictPut(d, currentAdult.species,
                        <<1, CacheEntry(d, currentAdult.species)[2]>>)]

\* The adult resolution and the rebuild at the end of update() (lines 424-440).
\* e is the value random.randint draws the elected candidate from.
resolveAdult(self, st, e) ==
  LET keeps == st.hasAdult
      elects == ~st.hasAdult /\ Len(st.adultStorage) > 0
      speciesID == IF keeps THEN st.currentAdult.species ELSE -1
      hasAdult == keeps \/ elects
      currentAdult == IF elects THEN st.adultStorage[(e % Len(st.adultStorage)) + 1]
                      ELSE st.currentAdult
      d == st.newNeighborDict
  IN [self EXCEPT
        !.hasAdult = hasAdult,
        !.currentAdult = currentAdult,
        !.storage = IF speciesID # -1 THEN Append(st.newStorage, currentAdult)
                    ELSE st.newStorage,
        !.dictionaryFormat =
           IF speciesID = -1 THEN d
           ELSE IF speciesID \in DOMAIN d
                THEN DictPut(d, speciesID, <<d[speciesID][1] + 1, d[speciesID][2]>>)
                ELSE DictPut(d, speciesID, <<1, 0>>)]

\* update(neighborDict).  draws[k] is the draw of the k-th occupant, oid the
\* next free object identity.  The result carries the container afterwards,
\* the exception raised and the next free identity; on an exception the
\* fields of self changed before the raise stay changed.
update(self, neighborDict, draws, e, oid) ==
  LET st0 == [storage |-> self.storage, hasAdult |-> self.hasAdult,
              currentAdult |-> self.currentAdult, newStorage |-> << >>,
              adultStorage |-> << >>, newNeighborDict |-> EmptyDict,
              err |-> "none", oid |-> oid]
      st == updateLoop(st0, 1, neighborDict, draws)
  IN IF st.err # "none"
     THEN [arr |-> [self EXCEPT !.storage = st.storage, !.hasAdult = st.hasAdult,
                                !.currentAdult = st.currentAdult],
           err |-> st.err, oid |-> st.oid]
     ELSE [arr |-> resolveAdult(self, st, e), err |-> "none", oid |-> st.oid]

\* produceSeeds(boomerModel): the seed container of one tick; the new plants
\* get the identities oid, oid+1, ...
RECURSIVE seedLoop(_, _, _, _, _)
seedLoop(seedArray, species, n, boomerModel, oid) ==
  IF n = 0 THEN seedArray
  ELSE seedLoop(IF boomerModel THEN addAdult(seedArray, Adult(species, 0, oid))
                ELSE addPlant(seedArray, Juvenile(species, 0, oid), 0).arr,
                species, n - 1, boomerModel, oid + 1)

\* Mutant of produceSeeds: the seeds are of the other species of the catalogue.
produceSeedsForeign(self, boomerModel, oid) ==
  IF self.hasAdult
  THEN seedLoop(PlantArray(self.storageLimit),
                Len(SpeciesList) + 1 - self.currentAdult.species,
                SpeciesOf(self.currentAdult.species).ns, boomerModel, oid)
  ELSE PlantArray(self.storageLimit)

produceSeeds(self, boomerModel, oid) ==
  IF self.hasAdult
  THEN seedLoop(PlantArray(self.storageLimit), self.currentAdult.species,
                SpeciesOf(self.currentAdult.species).ns, boomerModel, oid)
  ELSE PlantArray(self.storageLimit)

\* Mutant of boomerMergeDict: the resident's entry is set to 1, not raised by 1.
boomerMergeDictSet(self, neighborDict) ==
  IF self.hasAdult THEN DictPut(neighborDict, self.currentAdult.species, 1)
  ELSE neighborDict

\* boomerMergeDict: adds the resident adult to the running map.
boomerMergeDict(self, neighborDict) ==
  IF self.hasAdult THEN
    LET speciesID == self.currentAdult.species IN
    IF speciesID \in DOMAIN neighborDict
    THEN DictPut(neighborDict, speciesID, neighborDict[speciesID] + 1)
    ELSE DictPut(neighborDict, speciesID, 1)
  ELSE neighborDict

\* zoomerMergeDict: adds adultCount + juvenileCount of every cached species.
RECURSIVE zoomerFold(_, _, _)
zoomerFold(d, keys, neighborDict) ==
  IF keys = {} THEN neighborDict
  ELSE LET speciesID == CHOOSE x \in keys : TRUE
           count == d[speciesID][1] + d[speciesID][2]
       IN zoomerFold(d, keys \ {speciesID},
                     IF speciesID \in DOMAIN neighborDict
                     THEN DictPut(neighborDict, speciesID, neighborDict[speciesID] + count)
                     ELSE DictPut(neighborDict, speciesID, count))

zoomerMergeDict(self, neighborDict) ==
  zoomerFold(self.dictionaryFormat, DOMAIN self.dictionaryFormat, neighborDict)

mergeDict(self, neighborDict, boomerModel) ==
  IF boomerModel THEN boomerMergeDict(self, neighborDict)
  ELSE zoomerMergeDict(self, neighborDict)

\* mergeDict as a call: the container afterwards (no line of lines 275-331
\* assigns to a field of self) and the map returned.
mergeDictCall(self, neighborDict, boomerModel) ==
  [arr |-> self, dict |-> mergeDict(self, neighborDict, boomerModel)]

\* toDict(): the full recount of the container.
RECURSIVE countLoop(_, _, _)
countLoop(storage, k, returnDict) ==
  IF k > Len(storage) THEN returnDict
  ELSE LET speciesID == storage[k].species IN
       countLoop(storage, k + 1,
                 IF speciesID \in DOMAIN returnDict
                 THEN DictPut(returnDict, speciesID,
                              <<returnDict[speciesID][1], returnDict[speciesID][2] + 1>>)
                 ELSE DictPut(returnDict, speciesID, <<0, 1>>))

\* The map toDict builds (lines 345-358): the list counted as Juveniles, the
\* resident moved to the adult count of its species.
returnDict(self) ==
  LET counted == countLoop(self.storage, 1, EmptyDict) IN
  IF self.hasAdult THEN
    LET speciesID == self.currentAdult.species IN
    IF speciesID \in DOMAIN counted
    THEN DictPut(counted, speciesID,
                 <<counted[speciesID][1] + 1, counted[speciesID][2] - 1>>)
    ELSE DictPut(counted, speciesID, <<1, 0>>)
  ELSE counted

\* toDict(): the container afterwards, its cache replaced by the recount
\* (line 359), and the map returned.
toDict(self) ==
  [arr |-> [self EXCEPT !.dictionaryFormat = returnDict(self)],
   dict |-> returnDict(self)]

\* The values random.randint(0, len(storage) - 1) can return in a call of
\* addPlant or mergeArray on self (addPlant reduces r modulo the length).
randRange(self) ==
  LET n == IF Len(self.storage) > self.storageLimit
           THEN Len(self.storage) ELSE self.storageLimit
  IN 0..((IF n > 0 THEN n ELSE 1) - 1)

\* ------------------------------------------------------------------- Board
Cells == (0..(BoardLength - 1)) \X (0..(BoardLength - 1))

\* The cell the loops `for i ... for j ...` visit n-th (n from 0).
CellAt(n) == <<n \div BoardLength, n % BoardLength>>

InBounds(x, y) ==
  (x > -1) /\ (x < BoardLength) /\ (y > -1) /\ (y < BoardLength)

\* Mutant of positions: the eight neighbours, without the cell itself.
positionsAround(i, j) ==
  << <<i - 1, j - 1>>, <<i - 1, j>>, <<i - 1, j + 1>>,
     <<i, j - 1>>,                   <<i, j + 1>>,
     <<i + 1, j - 1>>, <<i + 1, j>>, <<i + 1, j + 1>> >>

\* The nine positions makeNeighborDicts visits around (i, j), in its order.
positions(i, j) ==
  << <<i - 1, j - 1>>, <<i - 1, j>>, <<i - 1, j + 1>>,
     <<i, j - 1>>,     <<i, j>>,     <<i, j + 1>>,
     <<i + 1, j - 1>>, <<i + 1, j>>, <<i + 1, j + 1>> >>

\* The cells of a board of side boardLength.
CellsOf(boardLength) == (0..(boardLength - 1)) \X (0..(boardLength - 1))

\* Mutant of withinBoundary: row 0 is taken to lie outside the board.
withinBoundaryAbove(position, boardLength) ==
  (position[1] > 0) /\ (position[1] < boardLength) /\
  (position[2] > -1) /\ (position[2] < boardLength)

\* The boundary check of makeNeighborDicts (lines 190-191).
withinBoundary(position, boardLength) ==
  (position[1] > -1) /\ (position[1] < boardLength) /\
  (position[2] > -1) /\ (position[2] < boardLength)

RECURSIVE neighborFold(_, _, _, _, _, _)
neighborFold(brd, pos, k, newDict, boomer, boardLength) ==
  IF k > Len(pos) THEN newDict
  ELSE neighborFold(brd, pos, k + 1,
                    IF withinBoundary(pos[k], boardLength)
                    THEN mergeDict(brd[pos[k]], newDict, boomer)
                    ELSE newDict,
                    boomer, boardLength)

\* makeNeighborDicts() of a board of side boardLength: the neighbour map of
\* every cell of brd.
makeNeighborDictsOn(brd, boomer, boardLength) ==
  [c \in CellsOf(boardLength) |->
     neighborFold(brd, positions(c[1], c[2]), 1, EmptyDict, boomer, boardLength)]

\* makeNeighborDicts() of the board of side BoardLength.
makeNeighborDicts(brd, boomer) == makeNeighborDictsOn(brd, boomer, BoardLength)

\* The displacements of the dispersal kernel, up to what they do: every
\* displacement between two cells of the board, which on every axis includes,
\* for every cell, one that leaves the board.
Offsets ==
  ((-(BoardLength - 1))..(BoardLength - 1)) \X ((-(BoardLength - 1))..(BoardLength - 1))

\* Mutant of stageSeed: an Adult goes in through the unchecked addAdult.
stageSeedUnchecked(staging, plant, r) ==
  IF plant.kind = "Adult" THEN Ok(addAdult(staging, plant))
  ELSE addPlant(staging, plant, r)

\* The call of line 264 of Board.update: the staging cell a seed lands on
\* takes it in through addPlant, in both modes.
stageSeed(staging, plant, r) == addPlant(staging, plant, r)

\* The dispersal loop of Board.update (lines 256-264) from seed k on; offs[k]
\* is the displacement drawn for seed k, rs[k] the value addPlant draws for it.
\* The result is the staging board and the exception raised.
RECURSIVE disperseLoop(_, _, _, _, _, _)
disperseLoop(out, seeds, k, cell, offs, rs) ==
  IF k > Len(seeds) \/ out.err # "none" THEN out
  ELSE LET x == cell[1] + offs[k][1]
           y == cell[2] + offs[k][2]
           res == stageSeed(out.sb[<<x, y>>], seeds[k], rs[k])
       IN disperseLoop(IF InBounds(x, y)
                       THEN [sb |-> [out.sb EXCEPT ![<<x, y>>] = res.arr], err |-> res.err]
                       ELSE out,
                       seeds, k + 1, cell, offs, rs)

disperse(sb, seeds, cell, offs, rs) ==
  disperseLoop([sb |-> sb, err |-> "none"], seeds, 1, cell, offs, rs)

\* Board.__init__ (lines 90-103).  In the adult-dispersal model a species
\* gets a set of startNumber distinct coordinates drawn from
\* np.random.randint(0, boardLength - 1), whose upper end is exclusive; in the
\* juvenile-dispersal model startNumber cells drawn from
\* random.randint(0, boardLength - 1), whose upper end is inclusive.
BoomerCoords == (0..(BoardLength - 2)) \X (0..(BoardLength - 2))

\* The placements one species can get.
FounderCells(startNumber, boomer) ==
  IF boomer
  THEN {cs \in SUBSET BoomerCoords : Cardinality(cs) = startNumber}
  ELSE [1..startNumber -> Cells]

RECURSIVE placeAdults(_, _, _, _)
placeAdults(sb, coords, species, oid) ==
  IF coords = {} THEN sb
  ELSE LET first == CHOOSE x \in coords : \A y \in coords :
                       (x[1] < y[1]) \/ (x[1] = y[1] /\ x[2] <= y[2])
       IN placeAdults([sb EXCEPT ![first] = addAdult(sb[first], Adult(species, 0, oid))],
                      coords \ {first}, species, oid + 1)

RECURSIVE placeJuveniles(_, _, _, _, _)
placeJuveniles(sb, starts, j, species, oid) ==
  IF j > Len(starts) THEN sb
  ELSE placeJuveniles(
         [sb EXCEPT ![starts[j]] = addPlant(sb[starts[j]], Juvenile(species, 0, oid), 0).arr],
         starts, j + 1, species, oid + 1)

\* The loop over the species list from species number k on; where[k] is the
\* placement drawn for species number k.
RECURSIVE seedFounders(_, _, _, _, _, _)
seedFounders(sb, k, where, startNumber, boomer, oid) ==
  IF k > Len(where) THEN sb
  ELSE seedFounders(
         IF boomer THEN placeAdults(sb, where[k], SpeciesList[k].speciesID, oid)
         ELSE placeJuveniles(sb, where[k], 1, SpeciesList[k].speciesID, oid),
         k + 1, where, startNumber, boomer, oid + startNumber)

\* ------------------------------------------------------------------- state
VARIABLES
  board,            \* Board.board: cell -> the PlantArray of its Tile
  seedBoard,        \* Board.seedBoard: cell -> staging PlantArray
  boardTime,        \* Board.boardTime
  boomerModel,      \* Board.boomerModel
  printFreq,        \* Board.printFreq
  newNeighborDicts, \* the local newNeighborDicts of the running Board.update
  pc,               \* position of Board.update: "idle", "cells", "merge", "raised";
                    \* "returned" after a call of makeNeighborDicts alone
  cur,              \* number of the cell the running loop is at
  nextOid,          \* identity the next created Plant object gets
  err,              \* exception that ended Board.update, or "none"
  tickStart,        \* the board as it was when the running tick started
  lastUpdate,       \* the latest Tile.update(neighborData) of the running tick, and
                    \* the aggregation of the cell's block when it was called
  arr,              \* a PlantArray driven through its methods by a caller
  hist,             \* the latest method call on arr: arguments, arr before, exception
  made,             \* Plant objects offered to arr so far
  ticks,            \* calls of arr.update so far
  individual,       \* a Plant a caller holds and updates
  call,             \* the latest update call on individual: arguments, draw, outcome
  classSpeciesID,   \* Species.speciesID, the counter held by the class
  created,          \* Species objects constructed so far, in order of creation
  construct,        \* the latest Species(...) call: arguments, exception, object
  run,              \* the latest Simulation.run: the update calls its loop has yet
                    \* to make, its argument, boardTime and the board when it was
                    \* called, the calls so far
  build,            \* a running Board.__init__: its arguments, the species it is
                    \* at and the set coords of its while loop
  boardsUsed,       \* boards useBoard and loadBoard have handed the simulation
  file              \* the file saveBoard writes and loadBoard reads

bvars == <<board, seedBoard, boardTime, newNeighborDicts, pc, cur, err,
           tickStart, lastUpdate>>
hvars == <<arr, hist, made, ticks>>
pvars == <<individual, call>>
svars == <<classSpeciesID, created, construct>>
config == <<boomerModel, printFreq, svars, run, build, boardsUsed, file>>
vars == <<bvars, hvars, pvars, config, nextOid>>

NoDicts == [c \in Cells |-> EmptyDict]

NoUpdate == [cell |-> <<-1, -1>>, neighborData |-> EmptyDict, atCall |-> EmptyDict]

NoStaging == [c \in Cells |-> PlantArray(StorageLimit)]

NoTick == [op |-> "none", pre |-> None, cNeighbors |-> 0, hNeighbors |-> 0,
           draw |-> 0, self |-> None, result |-> None]

NoCall == [op |-> "none", pre |-> PlantArray(StorageLimit), plant |-> None,
           src |-> PlantArray(StorageLimit), neighborDict |-> EmptyDict,
           draws |-> << >>, r |-> 0, err |-> "none", out |-> EmptyDict,
           offs |-> << >>, staged |-> NoStaging]

NoConstruct == [op |-> "none", p1 |-> 0, p2 |-> 0, t1 |-> 0, t2 |-> 0,
                err |-> "none", counter |-> 0, species |-> None]

\* Simulation.run has not been called.
NoRun == [left |-> 0, iterations |-> 0, from |-> 0, on |-> 0, calls |-> 0]

\* No constructor is running.
NoBuild == [boardLength |-> 0, storageLimit |-> 0, startNumber |-> 0, i |-> 0,
            coords |-> {}]

\* No file has been written.
NoFile == [written |-> FALSE, board |-> NoStaging, seedBoard |-> NoStaging,
           boardTime |-> 0, boomerModel |-> FALSE, printFreq |-> [nan |-> FALSE, n |-> 0]]

\* The class counter and the objects once the catalogue SpeciesList is created;
\* the board is built and run once.
CatalogueCreated ==
  /\ classSpeciesID = Len(SpeciesList) + 1
  /\ created = SpeciesList
  /\ construct = NoConstruct
  /\ run = NoRun
  /\ build = NoBuild
  /\ boardsUsed = 0
  /\ file = NoFile

\* printFreq of Simulation.__init__ when the caller gives none.
PrintFreq == 100

\* A printFreq the constructor is given, which it stores unchecked: the int n,
\* or the float nan.
Every(n) == [nan |-> FALSE, n |-> n]

NotANumber == [nan |-> TRUE, n |-> 0]

\* The printFreq a board is built with: a snapshot due at every tick, the
\* default, and nan.
PrintFreqs == {Every(1), Every(PrintFreq), NotANumber}

\* The test of Board.update, line 241: ((boardTime - 1) % printFreq) == 0.
\* The remainder by nan is nan, which equals no number; the remainder of 0 by
\* any int is 0, so with an int the test is true at boardTime 1.
snapshotDue(time, freq) == ~freq.nan /\ (time - 1) % freq.n = 0

\* The state after Board.__init__, for every mode, startNumber, placement and
\* printFreq.
Init ==
  /\ boomerModel \in BOOLEAN
  /\ printFreq \in PrintFreqs
  /\ CatalogueCreated
  /\ \E startNumber \in 0..MaxStart :
       /\ \E where \in [1..Len(SpeciesList) -> FounderCells(startNumber, boomerModel)] :
            seedBoard = seedFounders([c \in Cells |-> PlantArray(StorageLimit)], 1,
                                     where, startNumber, boomerModel, 1)
       /\ nextOid = 1 + startNumber * Len(SpeciesList)
  /\ board = [c \in Cells |-> PlantArray(StorageLimit)]
  /\ boardTime = 0
  /\ newNeighborDicts = NoDicts
  /\ pc = "idle"
  /\ cur = 0
  /\ err = "none"
  /\ tickStart = board
  /\ lastUpdate = NoUpdate
  /\ arr = PlantArray(StorageLimit)
  /\ hist = NoCall
  /\ made = 0
  /\ ticks = 0
  /\ individual = None
  /\ call = NoTick

\* Mutant of neighborDataFor: the map is aggregated when the cell is reached,
\* from the board as the cells updated before it have left it.
neighborDataForLazy(c, dicts, brd, boomer) == makeNeighborDicts(brd, boomer)[c]

\* The argument Board.update hands to Tile.update for cell c (line 251).
neighborDataFor(c, dicts, brd, boomer) == dicts[c]

\* saveNeighborDicts (lines 199-226): the export reads the attribute
\* neighborDict of the first cell's PlantArray, which PlantArray (plants.py,
\* lines 167-172) does not define, and the call raises before any map is built.
saveNeighborDicts(brd, boomer) == [dicts |-> NoDicts, err |-> "AttributeError"]

\* Board.update, lines 241-247: on a tick whose snapshot is due the maps come
\* from saveNeighborDicts, else from makeNeighborDicts; the tick is counted.
updateBegins ==
  /\ pc = "idle"
  /\ IF snapshotDue(boardTime, printFreq)
     THEN LET saved == saveNeighborDicts(board, boomerModel) IN
          /\ err' = saved.err
          /\ pc' = "raised"
          /\ UNCHANGED <<newNeighborDicts, boardTime, cur, tickStart, lastUpdate>>
     ELSE /\ newNeighborDicts' = makeNeighborDicts(board, boomerModel)
          /\ boardTime' = boardTime + 1
          /\ pc' = "cells"
          /\ cur' = 0
          /\ tickStart' = board
          /\ lastUpdate' = NoUpdate
          /\ err' = err
  /\ UNCHANGED <<board, seedBoard, boomerModel, printFreq, svars, build, boardsUsed,
                 file, nextOid, hvars, pvars>>

\* Board.update is called on a board that has made fewer than maxTime ticks.
StartTick(maxTime) ==
  /\ boardTime < maxTime
  /\ updateBegins
  /\ UNCHANGED run

\* Board.update, lines 251-264: one iteration of the first loop: the tile is
\* updated, its seeds are produced and dispersed into the staging board.
AdvanceCell ==
  /\ pc = "cells"
  /\ LET c == CellAt(cur)
         neighborData == neighborDataFor(c, newNeighborDicts, board, boomerModel)
     IN
     /\ lastUpdate' = [cell |-> c, neighborData |-> neighborData,
                       atCall |-> makeNeighborDicts(board, boomerModel)[c]]
     /\ \E draws \in [1..Len(board[c].storage) -> Draws] :
        \E u \in {update(board[c], neighborData, draws, e, nextOid) : e \in randRange(board[c])} :
          IF u.err # "none"
          THEN /\ board' = [board EXCEPT ![c] = u.arr]
               /\ err' = u.err
               /\ pc' = "raised"
               /\ nextOid' = u.oid
               /\ UNCHANGED <<seedBoard, cur>>
          ELSE \E newSeeds \in {produceSeeds(u.arr, boomerModel, u.oid)} :
               \E out \in {disperse(seedBoard, newSeeds.storage, c, offs, rs) :
                             offs \in [1..Len(newSeeds.storage) -> Offsets],
                             \* addPlant draws an index for an Adult only
                             rs \in [1..Len(newSeeds.storage) ->
                                       IF boomerModel THEN 0..(StorageLimit - 1) ELSE {0}]} :
                 /\ board' = [board EXCEPT ![c] = u.arr]
                 /\ seedBoard' = out.sb
                 /\ nextOid' = u.oid + Len(newSeeds.storage)
                 /\ err' = out.err
                 /\ IF out.err # "none"
                    THEN pc' = "raised" /\ cur' = cur
                    ELSE IF cur + 1 < BoardLength * BoardLength
                         THEN pc' = "cells" /\ cur' = cur + 1
                         ELSE pc' = "merge" /\ cur' = 0
  /\ UNCHANGED <<boardTime, config, newNeighborDicts, tickStart, hvars, pvars>>

\* Board.update, lines 271-273: one iteration of the second loop: the staging
\* cell is merged into the live cell and replaced by a cleared one.
MergeCell ==
  /\ pc = "merge"
  /\ LET c == CellAt(cur) IN
     \E r \in randRange(board[c]) :
       LET m == mergeArray(board[c], seedBoard[c], r) IN
       /\ board' = [board EXCEPT ![c] = m.arr]
       /\ err' = m.err
       /\ IF m.err # "none"
          THEN pc' = "raised" /\ cur' = cur /\ seedBoard' = seedBoard
          ELSE /\ seedBoard' = [seedBoard EXCEPT ![c] = clear(seedBoard[c])]
               /\ IF cur + 1 < BoardLength * BoardLength
                  THEN pc' = "merge" /\ cur' = cur + 1
                  ELSE pc' = "idle" /\ cur' = 0
  /\ UNCHANGED <<boardTime, config, newNeighborDicts, nextOid, tickStart,
                 lastUpdate, hvars, pvars>>

Next == StartTick(MaxTime) \/ AdvanceCell \/ MergeCell

\* The simulation: a board built by Board.__init__ and run by Board.update.
Spec == Init /\ [][Next]_vars

\* ---------------------------------------------------------------------- run
Iterations == 0        \* the largest argument of Simulation.run

\* The least argument for which the loop of run makes an update: run checks
\* nothing, and range(iterations + 2) is one iteration for -1.
LeastIterations == -1

\* The arguments Simulation.run is called with.
RunArguments == LeastIterations..Iterations

\* The number of Board.update calls the loop of Simulation.run(iterations)
\* makes (simulator.py, line 133).
RunLength(iterations) == iterations + 2

\* The calls of run, useBoard and loadBoard a caller makes on one Simulation.
MaxCalls == 2

\* The calls of run, useBoard and loadBoard made so far.
callsMade == run.calls + boardsUsed

\* No call of run is in progress: the caller calls the methods of the
\* simulation before a run or after it has returned.
BetweenRuns == pc = "idle" /\ run.left = 0

\* Simulation.run(iterations) is called (simulator.py, line 133): the loop has
\* range(iterations + 2) to go through, whatever the board's tick counter is.
\* The caller makes the calls that end within MaxTime ticks of the board.
CallRun ==
  /\ BetweenRuns
  /\ callsMade < MaxCalls
  /\ \E iterations \in RunArguments :
       /\ boardTime + RunLength(iterations) <= MaxTime
       /\ run' = [left |-> RunLength(iterations), iterations |-> iterations,
                  from |-> boardTime, on |-> boardsUsed, calls |-> run.calls + 1]
  /\ UNCHANGED <<bvars, hvars, pvars, boomerModel, printFreq, svars, build,
                 boardsUsed, file, nextOid>>

\* One iteration of the loop of run (simulator.py, lines 133-134) calls
\* Board.update: a call of run, once made, goes through all its iterations
\* unless an update raises.
RunUpdate ==
  /\ run.left > 0
  /\ updateBegins
  /\ run' = [run EXCEPT !.left = @ - 1]

\* A plant, a container and a board whose objects are other objects: every
\* identity lies k further.  pickle.load builds new objects, and an object
\* the pickled board refers to twice is one object in the loaded board.
shiftPlant(p, k) == IF p = None THEN None ELSE [p EXCEPT !.oid = @ + k]

shiftArray(a, k) ==
  [a EXCEPT !.currentAdult = shiftPlant(a.currentAdult, k),
            !.storage = [i \in 1..Len(a.storage) |-> shiftPlant(a.storage[i], k)]]

shiftBoard(b, k) == [c \in DOMAIN b |-> shiftArray(b[c], k)]

\* Simulation.saveBoard(filepath) (simulator.py, lines 90-97; Board.saveBoard,
\* board.py, lines 124-132): the board as it is now is written to the file.
SaveBoard ==
  /\ BetweenRuns
  /\ file' = [written |-> TRUE, board |-> board, seedBoard |-> seedBoard,
              boardTime |-> boardTime, boomerModel |-> boomerModel,
              printFreq |-> printFreq]
  /\ UNCHANGED <<bvars, hvars, pvars, boomerModel, printFreq, svars, run, build,
                 boardsUsed, nextOid>>

\* Simulation.loadBoard(filepath) (simulator.py, lines 63-71; Board.loadBoard,
\* board.py, lines 109-122) of the file saveBoard wrote: the simulation's board
\* becomes the board the file holds, made of new objects.
LoadBoard ==
  /\ BetweenRuns
  /\ file.written
  /\ callsMade < MaxCalls
  /\ boardsUsed' = boardsUsed + 1
  /\ board' = shiftBoard(file.board, nextOid - 1)
  /\ seedBoard' = shiftBoard(file.seedBoard, nextOid - 1)
  /\ boardTime' = file.boardTime
  /\ boomerModel' = file.boomerModel
  /\ printFreq' = file.printFreq
  /\ nextOid' = 2 * nextOid - 1
  /\ newNeighborDicts' = NoDicts
  /\ cur' = 0
  /\ tickStart' = board'
  /\ lastUpdate' = NoUpdate
  /\ UNCHANGED <<pc, err, svars, run, build, file, hvars, pvars>>

\* Simulation.useBoard(newBoard) (simulator.py, lines 73-81), called before
\* run or after it has returned: the simulation's board becomes
\* newBoard, a Board as Board.__init__ leaves it, of any mode, startNumber,
\* placement and printFreq, whose Plant objects are new ones.
UseBoard ==
  /\ BetweenRuns
  /\ callsMade < MaxCalls
  /\ boardsUsed' = boardsUsed + 1
  /\ boomerModel' \in BOOLEAN
  /\ printFreq' \in PrintFreqs
  /\ \E startNumber \in 0..MaxStart :
       /\ \E where \in [1..Len(SpeciesList) -> FounderCells(startNumber, boomerModel')] :
            seedBoard' = seedFounders([c \in Cells |-> PlantArray(StorageLimit)], 1,
                                      where, startNumber, boomerModel', nextOid)
       /\ nextOid' = nextOid + startNumber * Len(SpeciesList)
  /\ board' = [c \in Cells |-> PlantArray(StorageLimit)]
  /\ boardTime' = 0
  /\ newNeighborDicts' = NoDicts
  /\ cur' = 0
  /\ tickStart' = board'
  /\ lastUpdate' = NoUpdate
  /\ UNCHANGED <<pc, err, svars, run, build, file, hvars, pvars>>

\* The calls of a caller on a Simulation and the steps of run: the loop calls
\* Board.update until its range is used up or an update raises; between runs
\* the caller may replace the board, save it and load the board saved.
NextRun ==
  \/ CallRun \/ RunUpdate \/ AdvanceCell \/ MergeCell
  \/ UseBoard \/ SaveBoard \/ LoadBoard

\* A Simulation as its constructor leaves it (the board of Board.__init__),
\* on which run, useBoard, saveBoard and loadBoard are called.
SpecRun == Init /\ [][NextRun]_vars

\* --------------------------------------------------- the container alone
\* The Plant objects a caller creates: new objects of age 0, as Board.__init__
\* and produceSeeds create them.
Offered(oid) ==
  {Juvenile(s, 0, oid) : s \in SpeciesIDs} \cup {Adult(s, 0, oid) : s \in SpeciesIDs}

\* The staging containers n calls can build from a: every call addAdult
\* (unchecked, as Board.__init__ does in the adult-dispersal model) or every
\* call addPlant (as the dispersal loop of Board.update does).
RECURSIVE buildSources(_, _, _, _)
buildSources(a, n, oid, unchecked) ==
  IF n = 0 THEN {a}
  ELSE IF unchecked
       THEN UNION { buildSources(addAdult(a, Adult(s, 0, oid)), n - 1, oid + 1, unchecked)
                    : s \in SpeciesIDs }
       ELSE UNION { UNION { buildSources(addPlant(a, p, r).arr, n - 1, oid + 1, unchecked)
                            : r \in randRange(a) }
                    : p \in Offered(oid) }

\* What the rest of a 3x3 block can add to the neighbour map of a cell.
Neighbourhoods == {EmptyDict, (1 :> 1) @@ (2 :> 1)}

Min(a, b) == IF a < b THEN a ELSE b

\* The state after PlantArray(storageLimit).
InitArray ==
  /\ boomerModel \in BOOLEAN
  /\ printFreq = Every(PrintFreq)
  /\ CatalogueCreated
  /\ arr = PlantArray(StorageLimit)
  /\ hist = NoCall
  /\ made = 0
  /\ ticks = 0
  /\ individual = None
  /\ call = NoTick
  /\ nextOid = 1
  /\ board = [c \in Cells |-> PlantArray(StorageLimit)]
  /\ seedBoard = [c \in Cells |-> PlantArray(StorageLimit)]
  /\ boardTime = 0
  /\ newNeighborDicts = NoDicts
  /\ pc = "idle"
  /\ cur = 0
  /\ err = "none"
  /\ tickStart = board
  /\ lastUpdate = NoUpdate

\* The values random.randint can return in addPlant(plant) on self: its
\* range when the call replaces an occupant, and 0 when it draws nothing.
randints(self, plant) ==
  IF plant.kind = "Adult" /\ ~self.hasAdult /\ Len(self.storage) >= self.storageLimit
  THEN randRange(self) ELSE {0}

\* arr.addPlant(plant) with a new plant.
CallAddPlant ==
  /\ hist.err = "none"
  /\ made < MaxPlants
  /\ \E plant \in Offered(nextOid) :
       \E r \in randints(arr, plant) :
         LET res == addPlant(arr, plant, r) IN
         /\ arr' = res.arr
         /\ hist' = [NoCall EXCEPT !.op = "addPlant", !.pre = arr, !.plant = plant,
                                   !.r = r, !.err = res.err]
  /\ made' = made + 1
  /\ nextOid' = nextOid + 1
  /\ UNCHANGED <<ticks, config, bvars, pvars>>

\* arr.mergeArray(src) with a staging container of n new plants, which the
\* caller then drops (Board.update, lines 271-273).
CallMergeArray ==
  /\ hist.err = "none"
  /\ \E n \in 0..Min(StorageLimit, MaxPlants - made) :
       \E src \in buildSources(PlantArray(StorageLimit), n, nextOid, FALSE)
                    \cup buildSources(PlantArray(StorageLimit), n, nextOid, TRUE) :
         \E m \in {mergeArray(arr, src, r) : r \in randRange(arr)} :
           /\ arr' = m.arr
           /\ hist' = [NoCall EXCEPT !.op = "mergeArray", !.pre = arr, !.src = src,
                                     !.err = m.err]
           /\ made' = made + n
           /\ nextOid' = nextOid + n
  /\ UNCHANGED <<ticks, config, bvars, pvars>>

\* arr.update(neighborDict) with the map makeNeighborDicts builds: the cell
\* itself folded into the rest of its block.
CallUpdate ==
  /\ hist.err = "none"
  /\ ticks < MaxTicks
  /\ \E rest \in Neighbourhoods, draws \in [1..Len(arr.storage) -> Draws] :
       LET neighborDict == mergeDict(arr, rest, boomerModel) IN
       \E u \in {update(arr, neighborDict, draws, e, nextOid) : e \in randRange(arr)} :
          /\ arr' = u.arr
          /\ nextOid' = u.oid
          /\ hist' = [NoCall EXCEPT !.op = "update", !.pre = arr,
                                    !.neighborDict = neighborDict, !.draws = draws,
                                    !.err = u.err]
  /\ ticks' = ticks + 1
  /\ UNCHANGED <<made, config, bvars, pvars>>

\* arr.mergeDict(neighborDict, boomerModel) with the running map of the cells
\* folded before arr; the map returned is kept in hist.out.
CallMergeDict ==
  /\ hist.err = "none"
  /\ hist.op # "mergeDict"
  /\ \E neighborDict \in Neighbourhoods :
       LET res == mergeDictCall(arr, neighborDict, boomerModel) IN
       /\ arr' = res.arr
       /\ hist' = [NoCall EXCEPT !.op = "mergeDict", !.pre = arr,
                                 !.neighborDict = neighborDict, !.out = res.dict]
  /\ UNCHANGED <<made, ticks, nextOid, config, bvars, pvars>>

\* arr.addAdult(plant) with a new Adult of age 0 (board.py, line 98, and
\* plants.py, line 269).
CallAddAdult ==
  /\ hist.err = "none"
  /\ made < MaxPlants
  /\ \E s \in SpeciesIDs :
       /\ arr' = addAdult(arr, Adult(s, 0, nextOid))
       /\ hist' = [NoCall EXCEPT !.op = "addAdult", !.pre = arr,
                                 !.plant = Adult(s, 0, nextOid)]
  /\ made' = made + 1
  /\ nextOid' = nextOid + 1
  /\ UNCHANGED <<ticks, config, bvars, pvars>>

\* arr.toDict(); the map returned is kept in hist.out.
CallToDict ==
  /\ hist.err = "none"
  /\ LET res == toDict(arr) IN
     /\ arr' = res.arr
     /\ hist' = [NoCall EXCEPT !.op = "toDict", !.pre = arr, !.out = res.dict]
  /\ UNCHANGED <<made, ticks, nextOid, config, bvars, pvars>>

NextArray ==
  \/ CallAddPlant \/ CallAddAdult \/ CallMergeArray
  \/ CallUpdate \/ CallMergeDict \/ CallToDict

\* One PlantArray driven by a caller through its methods; an exception a
\* method raises is not caught and ends the run.
SpecArray == InitArray /\ [][NextArray]_vars

\* ------------------------------------------------------------ single plant
MaxAge == 3            \* largest age of a Plant handed to update
MaxNeighbors == 9      \* largest count of conspecific and of heterospecific neighbours

\* The values k/64 random.random() takes.
AllDraws == 0..63

\* A Juvenile or an Adult as its constructor builds it.
InitPlant ==
  /\ individual \in {Juvenile(s, a, 1) : s \in SpeciesIDs, a \in 0..MaxAge}
                    \cup {Adult(s, a, 1) : s \in SpeciesIDs, a \in 0..MaxAge}
  /\ call = NoTick
  /\ nextOid = 2
  /\ boomerModel = FALSE
  /\ printFreq = Every(PrintFreq)
  /\ CatalogueCreated
  /\ arr = PlantArray(StorageLimit)
  /\ hist = NoCall
  /\ made = 0
  /\ ticks = 0
  /\ board = [c \in Cells |-> PlantArray(StorageLimit)]
  /\ seedBoard = [c \in Cells |-> PlantArray(StorageLimit)]
  /\ boardTime = 0
  /\ newNeighborDicts = NoDicts
  /\ pc = "idle"
  /\ cur = 0
  /\ err = "none"
  /\ tickStart = board
  /\ lastUpdate = NoUpdate

\* individual.update(cNeighbors, hNeighbors); the caller keeps what it returns.
CallPlantUpdate ==
  /\ call.op = "none"
  /\ \E cNeighbors \in 0..MaxNeighbors, hNeighbors \in 0..MaxNeighbors, draw \in AllDraws :
       LET u == plantUpdate(individual, cNeighbors, hNeighbors, draw, nextOid) IN
       /\ individual' = u.result
       /\ nextOid' = IF u.fresh THEN nextOid + 1 ELSE nextOid
       /\ call' = [op |-> "update", pre |-> individual, cNeighbors |-> cNeighbors,
                   hNeighbors |-> hNeighbors, draw |-> draw,
                   self |-> u.self, result |-> u.result]
  /\ UNCHANGED <<bvars, hvars, config>>

NextPlant == CallPlantUpdate

\* One Plant whose update is called once, for every stage, age, neighbour
\* count and draw.
SpecPlant == InitPlant /\ [][NextPlant]_vars

\* ------------------------------------------------------------------ seeds
\* The containers produceSeeds is called on: built with any storageLimit,
\* then given a Juvenile, an Adult of any age, both or neither by addPlant.
SeedingArrays ==
  LET some == {None} \cup {Juvenile(s, 0, 1) : s \in SpeciesIDs}
      adults == {None} \cup {Adult(s, a, 2) : s \in SpeciesIDs, a \in 0..MaxAge}
      put(a, p) == IF p = None THEN a ELSE addPlant(a, p, 0).arr
  IN {put(put(PlantArray(l), j), ad) : l \in 1..StorageLimit, j \in some, ad \in adults}

InitSeeds ==
  /\ arr \in SeedingArrays
  /\ hist = NoCall
  /\ nextOid = 3
  /\ boomerModel \in BOOLEAN
  /\ printFreq = Every(PrintFreq)
  /\ CatalogueCreated
  /\ made = 0
  /\ ticks = 0
  /\ individual = None
  /\ call = NoTick
  /\ board = [c \in Cells |-> PlantArray(StorageLimit)]
  /\ seedBoard = [c \in Cells |-> PlantArray(StorageLimit)]
  /\ boardTime = 0
  /\ newNeighborDicts = NoDicts
  /\ pc = "idle"
  /\ cur = 0
  /\ err = "none"
  /\ tickStart = board
  /\ lastUpdate = NoUpdate

\* arr.produceSeeds(boomerModel); the container returned is kept in hist.src.
CallProduceSeeds ==
  /\ hist.op = "none"
  /\ hist' = [NoCall EXCEPT !.op = "produceSeeds", !.pre = arr,
                            !.src = produceSeeds(arr, boomerModel, nextOid)]
  /\ nextOid' = IF arr.hasAdult THEN nextOid + SpeciesOf(arr.currentAdult.species).ns
                ELSE nextOid
  /\ UNCHANGED <<arr, made, ticks, config, bvars, pvars>>

NextSeeds == CallProduceSeeds

\* One container whose produceSeeds is called once, for every storageLimit,
\* resident and dispersal mode.
SpecSeeds == InitSeeds /\ [][NextSeeds]_vars

\* ------------------------------------------------------------- aggregation
WideLength == 3        \* side of the board whose neighbour maps are built alone

WideCells == CellsOf(WideLength)

\* The number of cell c in the order of the loops `for i ... for j ...`.
WideIndex(c) == c[1] * WideLength + c[2]

\* A board of side WideLength whose cells in `populated` each hold one
\* resident Adult of the first species, put there by addPlant.
WideBoard(populated) ==
  [c \in WideCells |->
     IF c \in populated
     THEN addPlant(PlantArray(StorageLimit),
                   Adult(SpeciesList[1].speciesID, 0, 1 + WideIndex(c)), 0).arr
     ELSE PlantArray(StorageLimit)]

InitWide ==
  /\ boomerModel \in BOOLEAN
  /\ printFreq = Every(PrintFreq)
  /\ CatalogueCreated
  /\ \E populated \in SUBSET WideCells : board = WideBoard(populated)
  /\ seedBoard = [c \in WideCells |-> PlantArray(StorageLimit)]
  /\ boardTime = 0
  /\ newNeighborDicts = [c \in WideCells |-> EmptyDict]
  /\ pc = "idle"
  /\ cur = 0
  /\ err = "none"
  /\ tickStart = board
  /\ lastUpdate = NoUpdate
  /\ nextOid = 1 + WideLength * WideLength
  /\ arr = PlantArray(StorageLimit)
  /\ hist = NoCall
  /\ made = 0
  /\ ticks = 0
  /\ individual = None
  /\ call = NoTick

\* board.makeNeighborDicts(), called on its own.
CallMakeNeighborDicts ==
  /\ pc = "idle"
  /\ newNeighborDicts' = makeNeighborDictsOn(board, boomerModel, WideLength)
  /\ pc' = "returned"
  /\ UNCHANGED <<board, seedBoard, boardTime, cur, err, tickStart, lastUpdate,
                 config, nextOid, hvars, pvars>>

NextWide == CallMakeNeighborDicts

\* The neighbour maps of a board of side WideLength, for every set of
\* populated cells.
SpecWide == InitWide /\ [][NextWide]_vars

\* -------------------------------------------------------------- dispersal
\* What a staging cell can hold when a tile's seeds are dispersed: nothing,
\* one plant of either species, or (juvenile dispersal) a full list of
\* Juveniles; the plants are Adults in adult dispersal, Juveniles otherwise,
\* put there by addPlant.  n is the number of the cell, which fixes the
\* identities of its plants.
StagedChoices(boomer) == IF boomer THEN 0..2 ELSE 0..3

stagedPlant(boomer, speciesID, oid) ==
  IF boomer THEN Adult(speciesID, 0, oid) ELSE Juvenile(speciesID, 0, oid)

RECURSIVE fillStaging(_, _, _, _, _)
fillStaging(staging, boomer, speciesID, k, oid) ==
  IF k = 0 THEN staging
  ELSE fillStaging(addPlant(staging, stagedPlant(boomer, speciesID, oid), 0).arr,
                   boomer, speciesID, k - 1, oid + 1)

StagedCell(choice, boomer, n) ==
  IF choice = 0 THEN PlantArray(StorageLimit)
  ELSE IF choice = 3
       THEN fillStaging(PlantArray(StorageLimit), boomer, SpeciesList[1].speciesID,
                        StorageLimit, 1 + n * StorageLimit)
       ELSE fillStaging(PlantArray(StorageLimit), boomer, SpeciesList[choice].speciesID,
                        1, 1 + n * StorageLimit)

\* The identity of the resident whose seeds are dispersed.
ResidentOid == 1 + BoardLength * BoardLength * StorageLimit

InitDisperse ==
  /\ boomerModel \in BOOLEAN
  /\ printFreq = Every(PrintFreq)
  /\ CatalogueCreated
  /\ \E pick \in [Cells -> StagedChoices(boomerModel)] :
       seedBoard = [c \in Cells |->
                      StagedCell(pick[c], boomerModel, c[1] * BoardLength + c[2])]
  /\ cur \in 0..(BoardLength * BoardLength - 1)
  /\ \E speciesID \in SpeciesIDs :
       arr = addPlant(PlantArray(StorageLimit), Adult(speciesID, 0, ResidentOid), 0).arr
  /\ hist = NoCall
  /\ nextOid = ResidentOid + 1
  /\ board = [c \in Cells |-> PlantArray(StorageLimit)]
  /\ boardTime = 0
  /\ newNeighborDicts = NoDicts
  /\ pc = "cells"
  /\ err = "none"
  /\ tickStart = board
  /\ lastUpdate = NoUpdate
  /\ made = 0
  /\ ticks = 0
  /\ individual = None
  /\ call = NoTick

\* The dispersal loop of Board.update (lines 256-264) for the seeds of the
\* tile arr at cell number cur; the seeds, the displacements drawn and the
\* staging board before the loop are kept in hist.
CallDisperse ==
  /\ hist.op = "none"
  /\ \E newSeeds \in {produceSeeds(arr, boomerModel, nextOid)} :
     \E offs \in [1..Len(newSeeds.storage) -> Offsets],
        rs \in [1..Len(newSeeds.storage) ->
                  IF boomerModel THEN 0..(StorageLimit - 1) ELSE {0}] :
       LET out == disperse(seedBoard, newSeeds.storage, CellAt(cur), offs, rs) IN
       /\ seedBoard' = out.sb
       /\ err' = out.err
       /\ hist' = [NoCall EXCEPT !.op = "disperse", !.src = newSeeds,
                                 !.offs = offs, !.staged = seedBoard,
                                 !.err = out.err]
       /\ nextOid' = nextOid + Len(newSeeds.storage)
  /\ UNCHANGED <<arr, made, ticks, board, boardTime, newNeighborDicts, pc, cur,
                 tickStart, lastUpdate, config, pvars>>

NextDisperse == CallDisperse

\* The dispersal of the seeds of one tile over every staging board, source
\* cell and displacement.
SpecDisperse == InitDisperse /\ [][NextDisperse]_vars

\* ------------------------------------------------------------------ claims
AdultIndices(storage) == {k \in 1..Len(storage) : storage[k].kind = "Adult"}

AdultCount(storage) == Cardinality(AdultIndices(storage))

JuvenileCountOf(storage, s) ==
  Cardinality({k \in 1..Len(storage) :
                 storage[k].kind = "Juvenile" /\ storage[k].species = s})

\* The cache of a container agrees with its contents.
CacheConsistent(a) ==
  \A s \in SpeciesIDs \cup DOMAIN a.dictionaryFormat :
    CacheEntry(a.dictionaryFormat, s) =
      << IF a.hasAdult /\ a.currentAdult.species = s THEN 1 ELSE 0,
         JuvenileCountOf(a.storage, s) >>

\* The containers that hold a live population: the cells of the board and the
\* container driven alone.
LiveCells == {board[c] : c \in Cells} \cup {arr}

\* C1: in every live cell, hasAdult is true if and only if exactly one
\* element of the occupant list is an Adult.
C1_HasAdultIffOneAdult ==
  \A a \in LiveCells : a.hasAdult <=> (AdultCount(a.storage) = 1)

\* C2: the occupant list of every live cell is never longer than storageLimit.
C2_WithinStorageLimit ==
  \A a \in LiveCells : Len(a.storage) <= a.storageLimit

\* C3: the count cache of every live cell equals a recount of its contents:
\* per species, the number of its Juveniles in the list, and 1 adult exactly
\* when the resident adult is of that species.
C3_CacheMatchesRecount ==
  \A a \in LiveCells : CacheConsistent(a)

\* C4: the neighbour map handed to the update of a cell is the aggregation of
\* its 3x3 block as the board was when the tick started, however many cells
\* of the tick were updated before it.
C4_MapFromTickStart ==
  lastUpdate.cell \in Cells =>
    lastUpdate.neighborData =
      makeNeighborDicts(tickStart, boomerModel)[lastUpdate.cell]

\* C4 witness: a cell was updated after cells before it had changed its 3x3
\* block in this tick: the aggregation of the block at the moment of the call
\* is another map than the one handed over.
C4_Witness ==
  /\ lastUpdate.cell \in Cells
  /\ lastUpdate.cell # CellAt(0)
  /\ lastUpdate.atCall # lastUpdate.neighborData
  /\ lastUpdate.neighborData # EmptyDict

\* C5: a live cell's list holds at most one Adult, and when hasAdult is true
\* that Adult element is the object currentAdult refers to.
C5_SingleAdultIsCurrent ==
  \A a \in LiveCells :
    /\ AdultCount(a.storage) <= 1
    /\ a.hasAdult =>
         \E k \in AdultIndices(a.storage) : a.storage[k] = a.currentAdult

\* ------------------------------------------------- claims on the container
IsJuvenile(p) == p.kind = "Juvenile"

\* The Juveniles of a source container, in the order stored.
SourceJuveniles(src) == SelectSeq(src.storage, IsJuvenile)

\* The free slots of a container.
Room(a) ==
  IF Len(a.storage) < a.storageLimit THEN a.storageLimit - Len(a.storage) ELSE 0

\* The Juveniles of src that fit within the free slots of dst, in source order.
Fitting(dst, src) ==
  SubSeq(SourceJuveniles(src), 1, Min(Room(dst), Len(SourceJuveniles(src))))

InList(p, storage) == \E k \in 1..Len(storage) : storage[k] = p

\* C6, as stated: mergeArray keeps the destination's resident adult where it
\* is, leaves at most one Adult in the destination's list, and changes nothing
\* at all when both the destination and the source hold an adult.
C6_MergeKeepsResident ==
  hist.op = "mergeArray" =>
    /\ hist.pre.hasAdult =>
         /\ arr.hasAdult
         /\ arr.currentAdult = hist.pre.currentAdult
         /\ \A k \in AdultIndices(hist.pre.storage) : arr.storage[k] = hist.pre.storage[k]
    /\ AdultCount(arr.storage) <= 1
    /\ (hist.pre.hasAdult /\ hist.src.hasAdult) => arr = hist.pre

\* Every Adult in the list of a is the resident of a: no Adult was put there
\* by addAdult.
NoStagedAdult(a) ==
  \A k \in AdultIndices(a.storage) : a.hasAdult /\ a.storage[k] = a.currentAdult

\* C6, amended: the same, the bound on the Adults of the list holding for a
\* destination whose list held no Adult but its resident.
C6_MergeKeepsResidentOfCell ==
  hist.op = "mergeArray" =>
    /\ hist.pre.hasAdult =>
         /\ arr.hasAdult
         /\ arr.currentAdult = hist.pre.currentAdult
         /\ \A k \in AdultIndices(hist.pre.storage) : arr.storage[k] = hist.pre.storage[k]
    /\ NoStagedAdult(hist.pre) => AdultCount(arr.storage) <= 1
    /\ (hist.pre.hasAdult /\ hist.src.hasAdult) => arr = hist.pre

\* C6 witness: a destination with a resident Adult and a free slot was merged
\* with a source holding an Adult of another species and a Juvenile, and its
\* single Adult is the prior resident.
C6_Witness ==
  /\ hist.op = "mergeArray"
  /\ hist.pre.hasAdult /\ hist.src.hasAdult
  /\ hist.pre.currentAdult.species # hist.src.currentAdult.species
  /\ InList(hist.pre.currentAdult, hist.pre.storage)
  /\ Room(hist.pre) > 0
  /\ Len(SourceJuveniles(hist.src)) > 0
  /\ AdultCount(arr.storage) = 1
  /\ InList(hist.pre.currentAdult, arr.storage)

\* C7, as stated: after mergeArray every Juvenile of the source that fits
\* within the free slots of the destination, in source order, is in the
\* destination's list, whatever the destination and the source hold.
C7_FittingJuvenilesMerged ==
  hist.op = "mergeArray" =>
    \A k \in 1..Len(Fitting(hist.pre, hist.src)) :
      InList(Fitting(hist.pre, hist.src)[k], arr.storage)

\* The merges that admit Juveniles only: the two sides do not both hold an
\* adult, and no Adult of the source is let in (the destination has its
\* adult, or the source list holds no Adult).
JuvenileMerge ==
  /\ hist.op = "mergeArray"
  /\ ~(hist.pre.hasAdult /\ hist.src.hasAdult)
  /\ hist.pre.hasAdult \/ AdultCount(hist.src.storage) = 0

\* C7, amended: after a mergeArray that is not the no-op of two adults and
\* admits no Adult of the source, every Juvenile of the source that fits
\* within the free slots of the destination, in source order, is in the
\* destination's list.
C7_FittingJuvenilesMergedUnlessAdult ==
  JuvenileMerge =>
    \A k \in 1..Len(Fitting(hist.pre, hist.src)) :
      InList(Fitting(hist.pre, hist.src)[k], arr.storage)

\* C7 witness: a destination with its adult and one free slot was merged with
\* a source of more Juveniles than fit; the first is in, the next is not.
C7_Witness ==
  /\ JuvenileMerge
  /\ hist.pre.hasAdult
  /\ Room(hist.pre) > 0
  /\ Len(SourceJuveniles(hist.src)) > Room(hist.pre)
  /\ InList(SourceJuveniles(hist.src)[1], arr.storage)
  /\ ~InList(SourceJuveniles(hist.src)[Room(hist.pre) + 1], arr.storage)

\* The addPlant calls that offer an Adult to a container without an adult
\* whose list is at capacity.
AdultAtCapacity ==
  /\ hist.op = "addPlant"
  /\ hist.plant.kind = "Adult"
  /\ ~hist.pre.hasAdult
  /\ Len(hist.pre.storage) >= hist.pre.storageLimit

\* The cache after an Adult of species a has replaced the occupant ev.
CacheAfterReplacement(d, ev, a) ==
  LET d1 == DictPut(d, ev.species,
                    <<CacheEntry(d, ev.species)[1], CacheEntry(d, ev.species)[2] - 1>>)
  IN DictPut(d1, a, <<1, CacheEntry(d1, a)[2]>>)

\* C8: addPlant of an Adult into a container without an adult whose list is
\* at capacity raises nothing, puts the Adult in the place of exactly one
\* occupant, makes it the resident, takes one off the juvenile count of the
\* evicted occupant's species and sets the adult count of its own species to 1.
C8_AdultReplacesOneOccupant ==
  AdultAtCapacity =>
    /\ hist.err = "none"
    /\ Len(arr.storage) = Len(hist.pre.storage)
    /\ arr.hasAdult /\ arr.currentAdult = hist.plant
    /\ \E k \in 1..Len(hist.pre.storage) :
         /\ arr.storage = [hist.pre.storage EXCEPT ![k] = hist.plant]
         /\ arr.dictionaryFormat =
              CacheAfterReplacement(hist.pre.dictionaryFormat, hist.pre.storage[k],
                                    hist.plant.species)

\* The addPlant calls that offer a Juvenile to a container with a free slot.
JuvenileWithRoom ==
  /\ hist.op = "addPlant"
  /\ hist.plant.kind = "Juvenile"
  /\ Len(hist.pre.storage) < hist.pre.storageLimit

\* C9: addPlant of a Juvenile into a container with a free slot appends it,
\* adds one to the juvenile count of its species and to nothing else: every
\* adult count, hasAdult and currentAdult are as before.
C9_JuvenileAppendTouchesOneBucket ==
  JuvenileWithRoom =>
    /\ arr.storage = Append(hist.pre.storage, hist.plant)
    /\ arr.hasAdult = hist.pre.hasAdult
    /\ arr.currentAdult = hist.pre.currentAdult
    /\ \A s \in SpeciesIDs \cup DOMAIN arr.dictionaryFormat :
         /\ CacheEntry(arr.dictionaryFormat, s)[1] =
              CacheEntry(hist.pre.dictionaryFormat, s)[1]
         /\ CacheEntry(arr.dictionaryFormat, s)[2] =
              CacheEntry(hist.pre.dictionaryFormat, s)[2]
                + (IF s = hist.plant.species THEN 1 ELSE 0)

\* The addPlant calls whose plant is rejected.
RejectedOffer ==
  /\ hist.op = "addPlant"
  /\ \/ (hist.plant.kind = "Adult" /\ hist.pre.hasAdult)
     \/ (hist.plant.kind = "Juvenile"
           /\ Len(hist.pre.storage) >= hist.pre.storageLimit)

\* C10: an addPlant that rejects its plant (an Adult offered to a container
\* with an adult, a Juvenile offered to a list at capacity) raises nothing and
\* leaves the list, hasAdult, currentAdult and the count cache as they were.
C10_RejectedOfferChangesNothing ==
  RejectedOffer => arr = hist.pre /\ hist.err = "none"

\* C10 witness: an Adult was offered to a container that has its adult in
\* the list and a free slot, and the container is as before.
C10_Witness ==
  /\ RejectedOffer
  /\ hist.plant.kind = "Adult"
  /\ InList(hist.pre.currentAdult, hist.pre.storage)
  /\ Room(hist.pre) > 0
  /\ hist.plant.species # hist.pre.currentAdult.species
  /\ arr = hist.pre

\* The addPlant calls that offer an Adult to a container without an adult
\* whose list has a free slot.
AdultWithRoom ==
  /\ hist.op = "addPlant"
  /\ hist.plant.kind = "Adult"
  /\ ~hist.pre.hasAdult
  /\ Len(hist.pre.storage) < hist.pre.storageLimit

\* C11: addPlant of an Adult into a container without an adult and with a
\* free slot appends it, makes it the resident (hasAdult, currentAdult), sets
\* the adult count of its species to 1 and keeps every juvenile count.
C11_AdultAppendedBecomesResident ==
  AdultWithRoom =>
    /\ hist.err = "none"
    /\ arr.storage = Append(hist.pre.storage, hist.plant)
    /\ arr.hasAdult /\ arr.currentAdult = hist.plant
    /\ CacheEntry(arr.dictionaryFormat, hist.plant.species)[1] = 1
    /\ \A s \in SpeciesIDs \cup DOMAIN arr.dictionaryFormat
                        \cup DOMAIN hist.pre.dictionaryFormat :
         CacheEntry(arr.dictionaryFormat, s)[2] =
           CacheEntry(hist.pre.dictionaryFormat, s)[2]

\* C11 witness: the Adult was offered to a container that held a Juvenile of
\* its own species, whose count is still in the cache.
C11_Witness ==
  /\ AdultWithRoom
  /\ \E k \in 1..Len(hist.pre.storage) :
       /\ hist.pre.storage[k].kind = "Juvenile"
       /\ hist.pre.storage[k].species = hist.plant.species
  /\ CacheEntry(hist.pre.dictionaryFormat, hist.plant.species)[2] > 0
  /\ arr.currentAdult = hist.plant
  /\ InList(hist.plant, arr.storage)

\* C12: addPlant and mergeArray (and the addAdult that builds a source)
\* return without raising, whatever the container holds and is offered.
C12_AdmissionNeverRaises ==
  hist.op \in {"addPlant", "mergeArray"} => hist.err = "none"

\* C13: after update the rebuilt list holds only Juveniles and the resolved
\* resident, the resident is in it whenever the container has one, and the
\* rebuilt cache equals a recount of the list.
C13_RebuiltListHoldsResident ==
  (hist.op = "update" /\ hist.err = "none") =>
    /\ \A k \in 1..Len(arr.storage) :
         arr.storage[k].kind = "Juvenile" \/ arr.storage[k] = arr.currentAdult
    /\ arr.hasAdult => InList(arr.currentAdult, arr.storage)
    /\ CacheConsistent(arr)

\* The occupants of the container before the update call recorded in hist,
\* and what the call's draws decide for each of them.
Occupants == 1..Len(hist.pre.storage)

conCountOf(k) == hist.neighborDict[hist.pre.storage[k].species] - 1

hetCountOf(k) == SumValues(hist.neighborDict) - conCountOf(k)

Survives(k) ==
  updateTick(hist.pre.storage[k], conCountOf(k), hetCountOf(k), hist.draws[k])

Promoted(k) ==
  /\ hist.pre.storage[k].kind = "Juvenile"
  /\ Survives(k)
  /\ hist.pre.storage[k].age + 1 >= SpeciesOf(hist.pre.storage[k].species).t1

\* The resident of the container before the call is the k-th occupant.
IsResident(k) == hist.pre.hasAdult /\ hist.pre.storage[k] = hist.pre.currentAdult

UpdateReturned == hist.op = "update" /\ hist.err = "none"

\* p is the Adult that the k-th occupant was promoted to.
PromotedFrom(p, k) ==
  /\ Promoted(k)
  /\ p.kind = "Adult"
  /\ p.species = hist.pre.storage[k].species
  /\ p.age = hist.pre.storage[k].age + 1
  /\ \A j \in Occupants : p.oid # hist.pre.storage[j].oid

\* C14, as stated: a resident that survives its draw in update is the resident
\* afterwards, the same individual one tick older, whatever was promoted;
\* when the resident died or there was none, the resident afterwards is one
\* of the Juveniles promoted in this call if there is any, and the container
\* has no adult otherwise.
C14_AdultResolution ==
  UpdateReturned =>
    /\ \A k \in Occupants :
         (IsResident(k) /\ Survives(k)) =>
            /\ arr.hasAdult
            /\ arr.currentAdult = [hist.pre.currentAdult EXCEPT !.age = @ + 1]
    /\ (~hist.pre.hasAdult \/ \E k \in Occupants : IsResident(k) /\ ~Survives(k)) =>
         IF \E k \in Occupants : Promoted(k)
         THEN /\ arr.hasAdult
              /\ \E k \in Occupants : PromotedFrom(arr.currentAdult, k)
         ELSE ~arr.hasAdult /\ arr.currentAdult = None

\* C14, amended: the same, the election being as stated in a container whose
\* list held no Adult but its resident.
C14_AdultResolutionOfCell ==
  UpdateReturned =>
    /\ \A k \in Occupants :
         (IsResident(k) /\ Survives(k)) =>
            /\ arr.hasAdult
            /\ arr.currentAdult = [hist.pre.currentAdult EXCEPT !.age = @ + 1]
    /\ (/\ NoStagedAdult(hist.pre)
        /\ ~hist.pre.hasAdult \/ \E k \in Occupants : IsResident(k) /\ ~Survives(k)) =>
         IF \E k \in Occupants : Promoted(k)
         THEN /\ arr.hasAdult
              /\ \E k \in Occupants : PromotedFrom(arr.currentAdult, k)
         ELSE ~arr.hasAdult /\ arr.currentAdult = None

\* C14 witness: the resident survived in a call that also promoted a Juvenile.
C14_Witness ==
  /\ UpdateReturned
  /\ \E k \in Occupants : IsResident(k) /\ Survives(k)
  /\ \E k \in Occupants : Promoted(k)
  /\ arr.currentAdult.oid = hist.pre.currentAdult.oid

\* C14 witness of an election: the resident died in a call that promoted a
\* Juvenile, which is the resident afterwards.
C14_WitnessElected ==
  /\ UpdateReturned
  /\ \E k \in Occupants : IsResident(k) /\ ~Survives(k)
  /\ \E k \in Occupants : PromotedFrom(arr.currentAdult, k)

\* The update call recorded in call returned a live plant.
Survived == call.op = "update" /\ call.result.kind # "DeadPlant"

\* C15: a Juvenile that survives is one tick older and is returned as an
\* Adult of that age exactly when the new age is at least t1 of its species,
\* as the same Juvenile otherwise; an Adult that survives is the same Adult
\* one tick older.
C15_SurvivorAgesAndGrows ==
  Survived =>
    LET pre == call.pre
        aged == [pre EXCEPT !.age = @ + 1]
    IN /\ pre.kind = "Juvenile" =>
            /\ call.self = aged
            /\ call.result.age = pre.age + 1
            /\ call.result.species = pre.species
            /\ call.result.kind = "Adult" <=> pre.age + 1 >= SpeciesOf(pre.species).t1
            /\ call.result.kind # "Adult" => call.result = aged
       /\ pre.kind = "Adult" => call.result = aged /\ call.self = aged

\* C15 witness: a Juvenile whose new age is exactly t1 came back as an Adult.
C15_Witness ==
  /\ Survived
  /\ call.pre.kind = "Juvenile"
  /\ call.pre.age + 1 = SpeciesOf(call.pre.species).t1
  /\ call.result.kind = "Adult"

\* The per-tick survival probability and the density penalty of the plant of
\* the recorded call, in 64ths.
BaseSurvival ==
  IF call.pre.kind = "Juvenile" THEN SpeciesOf(call.pre.species).seedPerTick
  ELSE SpeciesOf(call.pre.species).adultPerTick

Penalty ==
  (IF call.pre.kind = "Juvenile" THEN 2 ELSE 1)
    * (call.cNeighbors * SpeciesOf(call.pre.species).conNDD
        + call.hNeighbors * SpeciesOf(call.pre.species).hetNDD)

\* C16: a plant survives its update exactly when its draw is at most its
\* per-tick survival minus its penalty, the penalty counted twice for a
\* Juvenile and once for an Adult; nothing is clamped, so a penalty above the
\* per-tick survival kills whatever the draw.
C16_SurvivalIffDrawWithinMargin ==
  call.op = "update" =>
    /\ call.result.kind # "DeadPlant" <=> call.draw <= BaseSurvival - Penalty
    /\ Penalty > BaseSurvival => call.result.kind = "DeadPlant"

\* C16 witness: the smallest draw killed an Adult whose penalty exceeds its
\* per-tick survival.
C16_Witness ==
  /\ call.op = "update"
  /\ call.pre.kind = "Adult"
  /\ Penalty > BaseSurvival
  /\ call.draw = 0
  /\ call.result.kind = "DeadPlant"

\* The containers of the program: the cells, the staging cells and the
\* container driven alone.
AllContainers == LiveCells \cup {seedBoard[c] : c \in Cells}

\* C17: no occupant list, no staging list and no currentAdult holds a
\* DeadPlant.
C17_NoDeadPlantKept ==
  \A a \in AllContainers :
    /\ \A k \in 1..Len(a.storage) : a.storage[k].kind # "DeadPlant"
    /\ a.currentAdult.kind # "DeadPlant"

\* C17 witness: the resident of the cell just updated died in this tick, and
\* the cell holds no trace of it.
C17_Witness ==
  /\ pc = "cells"
  /\ \E c \in Cells :
       /\ lastUpdate.cell = c
       /\ tickStart[c].hasAdult
       /\ ~board[c].hasAdult
       /\ board[c].currentAdult = None
       /\ \A k \in 1..Len(board[c].storage) :
            board[c].storage[k].oid # tickStart[c].currentAdult.oid

\* C18: produceSeeds returns an empty container when the container has no
\* resident; otherwise it returns exactly ns new plants of the resident's
\* species, all of age 0, Adults in adult dispersal and Juveniles in juvenile
\* dispersal, whatever ns and storageLimit are.
C18_SeedsAreNsNewPlants ==
  hist.op = "produceSeeds" =>
    IF ~hist.pre.hasAdult THEN hist.src.storage = << >>
    ELSE /\ Len(hist.src.storage) = SpeciesOf(hist.pre.currentAdult.species).ns
         /\ \A k \in 1..Len(hist.src.storage) :
              /\ hist.src.storage[k].species = hist.pre.currentAdult.species
              /\ hist.src.storage[k].age = 0
              /\ hist.src.storage[k].kind = IF boomerModel THEN "Adult" ELSE "Juvenile"
              /\ ~InList(hist.src.storage[k], hist.pre.storage)

\* The in-range cells of the 3x3 block around cell c.
Block(c) ==
  {d \in Cells : d[1] - c[1] \in -1..1 /\ d[2] - c[2] \in -1..1}

\* The plants of species s that container a holds in the running mode: its
\* resident Adult, and in juvenile dispersal its Juveniles as well.
Representatives(a, s) ==
  (IF a.hasAdult /\ a.currentAdult.species = s THEN 1 ELSE 0)
    + (IF boomerModel THEN 0 ELSE JuvenileCountOf(a.storage, s))

RECURSIVE CountIn(_, _, _)
CountIn(brd, cells, s) ==
  IF cells = {} THEN 0
  ELSE LET d == CHOOSE x \in cells : TRUE
       IN Representatives(brd[d], s) + CountIn(brd, cells \ {d}, s)

\* C19: the neighbour map of every cell has an entry for every species with
\* a representative in the cell's block, and the entry is the number of those
\* representatives on the board the tick started from.
C19_MapCountsRepresentatives ==
  pc = "cells" =>
    \A c \in Cells, s \in SpeciesIDs :
      CountIn(tickStart, Block(c), s) > 0 =>
        /\ s \in DOMAIN newNeighborDicts[c]
        /\ newNeighborDicts[c][s] = CountIn(tickStart, Block(c), s)

\* The cells of the wide board within one step of c on both axes, c included.
WideBlock(c) ==
  {d \in WideCells : d[1] - c[1] \in -1..1 /\ d[2] - c[2] \in -1..1}

\* The number of axes on which c lies on the border of the wide board.
BorderAxes(c) ==
  (IF c[1] \in {0, WideLength - 1} THEN 1 ELSE 0)
    + (IF c[2] \in {0, WideLength - 1} THEN 1 ELSE 0)

\* The count the map of c holds for the first species, 0 without an entry.
Aggregated(c) ==
  IF SpeciesList[1].speciesID \in DOMAIN newNeighborDicts[c]
  THEN newNeighborDicts[c][SpeciesList[1].speciesID] ELSE 0

Populated == {d \in WideCells : board[d].hasAdult}

\* C20: the map of a cell counts each populated cell of its clipped block
\* once and no other cell, so that on a fully populated board a corner cell
\* counts 4, an edge cell 6 and an interior cell 9.
C20_BlockClippedAtEdges ==
  pc = "returned" =>
    \A c \in WideCells :
      /\ Aggregated(c) = Cardinality(Populated \cap WideBlock(c))
      /\ Populated = WideCells =>
           Aggregated(c) = IF BorderAxes(c) = 2 THEN 4
                           ELSE IF BorderAxes(c) = 1 THEN 6 ELSE 9

\* C20 witness: on the fully populated board a corner, an edge cell and an
\* interior cell hold 4, 6 and 9.
C20_Witness ==
  /\ pc = "returned"
  /\ Populated = WideCells
  /\ Aggregated(<<0, 0>>) = 4
  /\ Aggregated(<<0, 1>>) = 6
  /\ Aggregated(<<1, 1>>) = 9

\* The value of species s in a neighbour map, 0 without an entry.
MapEntry(d, s) == IF s \in DOMAIN d THEN d[s] ELSE 0

\* C21: mergeDict leaves the container as it was (list, hasAdult,
\* currentAdult, cache); in adult dispersal the map returned is the map
\* passed in with the entry of the resident's species raised by exactly 1
\* when the container has a resident, and the map passed in otherwise.
C21_MergeDictReadsOnly ==
  hist.op = "mergeDict" =>
    /\ arr = hist.pre
    /\ boomerModel =>
         IF hist.pre.hasAdult
         THEN /\ DOMAIN hist.out =
                   DOMAIN hist.neighborDict \cup {hist.pre.currentAdult.species}
              /\ \A s \in DOMAIN hist.out :
                   hist.out[s] = MapEntry(hist.neighborDict, s)
                     + (IF s = hist.pre.currentAdult.species THEN 1 ELSE 0)
         ELSE hist.out = hist.neighborDict

\* C21 witness: in adult dispersal a container with a resident was folded
\* into a map that already counted the resident's species.
C21_Witness ==
  /\ hist.op = "mergeDict"
  /\ boomerModel
  /\ hist.pre.hasAdult
  /\ MapEntry(hist.neighborDict, hist.pre.currentAdult.species) = 1
  /\ hist.out[hist.pre.currentAdult.species] = 2

\* C22: the species of every occupant a cell held when the maps of the tick
\* were built is a key of the cell's map with a value of at least 1, and no
\* lookup of update has failed.
C22_OccupantSpeciesInMap ==
  /\ err # "KeyError"
  /\ \A c \in Cells : \A k \in 1..Len(tickStart[c].storage) :
       /\ tickStart[c].storage[k].species \in DOMAIN newNeighborDicts[c]
       /\ newNeighborDicts[c][tickStart[c].storage[k].species] >= 1

\* C22 witness: the cell just updated held an occupant that is the only one
\* of its species in the block, so that its conspecific count was 0.
C22_Witness ==
  /\ pc = "cells"
  /\ err = "none"
  /\ \E c \in Cells :
       /\ lastUpdate.cell = c
       /\ Len(tickStart[c].storage) > 0
       /\ lastUpdate.neighborData[tickStart[c].storage[1].species] - 1 = 0

\* The individuals a neighbour map counts for the species other than s.
OtherSpecies(d, s) == SumOver(d, DOMAIN d \ {s})

\* C23: the counts update hands to an occupant are the counted individuals
\* of its own species less itself, and the counted individuals of all other
\* species.
C23_CountsExcludeOccupant ==
  UpdateReturned =>
    \A k \in Occupants :
      LET s == hist.pre.storage[k].species IN
      /\ conCount(hist.neighborDict, s) = hist.neighborDict[s] - 1
      /\ hetCount(hist.neighborDict, s) = OtherSpecies(hist.neighborDict, s)

\* The plants a board holds in its lists.
PlantsOn(brd) ==
  UNION {{brd[c].storage[k] : k \in 1..Len(brd[c].storage)} : c \in Cells}

\* The cells the running merge loop has already passed.
MergedCells == {CellAt(n) : n \in 0..(cur - 1)}

\* C24: between two ticks every staging cell is an empty container (empty
\* list, no adult, empty cache); in the merge loop so is every staging cell
\* already passed; and no plant staged during a tick was on the live board
\* when the tick started, so nothing is merged twice.
C24_StagingMergedAndReset ==
  /\ (pc = "idle" /\ boardTime > 0) =>
       \A c \in Cells : seedBoard[c] = PlantArray(StorageLimit)
  /\ pc = "merge" =>
       \A c \in MergedCells : seedBoard[c] = PlantArray(StorageLimit)
  /\ (pc = "cells" /\ boardTime > 1) =>
       PlantsOn(seedBoard) \cap PlantsOn(tickStart) = {}

\* C24 witness: a tick has ended in which a staged plant was merged into a
\* live cell, and the staging board is empty.
C24_Witness ==
  /\ pc = "idle"
  /\ boardTime > 1
  /\ PlantsOn(board) \ PlantsOn(tickStart) # {}
  /\ \A c \in Cells : seedBoard[c].storage = << >>

\* The seeds of the recorded dispersal, the cell each was displaced to, and
\* the seeds that stayed on the board.
Seeds == 1..Len(hist.src.storage)

TargetOf(k) == << CellAt(cur)[1] + hist.offs[k][1], CellAt(cur)[2] + hist.offs[k][2] >>

Landed(k) == TargetOf(k) \in Cells

Staged(k) == InList(hist.src.storage[k], seedBoard[TargetOf(k)].storage)

\* Every staging cell holds what it held before the dispersal, in the same
\* order, followed only by seeds displaced to it; a seed displaced off the
\* board is in no cell.
OnlyLandedSeedsAdded ==
  \A c \in Cells :
    /\ Len(seedBoard[c].storage) >= Len(hist.staged[c].storage)
    /\ SubSeq(seedBoard[c].storage, 1, Len(hist.staged[c].storage)) = hist.staged[c].storage
    /\ \A i \in (Len(hist.staged[c].storage) + 1)..Len(seedBoard[c].storage) :
         \E k \in Seeds : Landed(k) /\ TargetOf(k) = c
                            /\ seedBoard[c].storage[i] = hist.src.storage[k]

\* C25: a dispersed seed that lands on the board is in the list of the
\* staging cell it lands on unless that list is full, also when the seed is
\* an Adult and the cell holds an Adult already; a seed that leaves the board
\* changes no cell.
C25_LandedSeedsStaged ==
  hist.op = "disperse" =>
    /\ hist.err = "none"
    /\ OnlyLandedSeedsAdded
    /\ \A k \in Seeds :
         Landed(k) =>
           \/ Staged(k)
           \/ Len(seedBoard[TargetOf(k)].storage) >= seedBoard[TargetOf(k)].storageLimit

\* C25 as the code has it: a seed that lands goes through addPlant in both
\* modes.  An Adult seed that is in the list of its staging cell is the Adult
\* the cell records (adult flag set, currentAdult the seed); a seed that
\* lands and is not in the list found the list full or, for an Adult, the
\* adult flag set for another Adult; a seed that leaves the board changes no
\* cell.
C25_LandedSeedsOfferedByAddPlant ==
  hist.op = "disperse" =>
    /\ hist.err = "none"
    /\ OnlyLandedSeedsAdded
    /\ \A k \in Seeds :
         Landed(k) =>
           IF Staged(k)
           THEN hist.src.storage[k].kind = "Adult" =>
                  /\ seedBoard[TargetOf(k)].hasAdult
                  /\ seedBoard[TargetOf(k)].currentAdult = hist.src.storage[k]
           ELSE \/ Len(seedBoard[TargetOf(k)].storage) >= seedBoard[TargetOf(k)].storageLimit
                \/ /\ hist.src.storage[k].kind = "Adult"
                   /\ seedBoard[TargetOf(k)].hasAdult
                   /\ seedBoard[TargetOf(k)].currentAdult # hist.src.storage[k]

\* C25 witness: of two Adult seeds displaced to the same empty staging cell
\* the first is staged and the second is not, and a third cell is untouched.
C25_Witness ==
  /\ hist.op = "disperse"
  /\ boomerModel
  /\ Len(hist.src.storage) = 2
  /\ Landed(1) /\ Landed(2) /\ TargetOf(1) = TargetOf(2)
  /\ hist.staged[TargetOf(1)].storage = << >>
  /\ seedBoard[TargetOf(1)].storage = << hist.src.storage[1] >>
  /\ seedBoard[TargetOf(1)].currentAdult = hist.src.storage[1]

\* C26: Board.update never raises: no tick of the board ends in an exception.
C26_TickNeverRaises == pc # "raised" /\ err = "none"

\* A call of Simulation.run is over, and the simulation still has the board
\* it ran on: an update raised, or the loop made all its calls and the last
\* of them returned.
RunOver ==
  /\ run.calls > 0
  /\ run.on = boardsUsed
  /\ pc = "raised" \/ (pc = "idle" /\ run.left = 0)

\* C27: when a call of run(iterations) for a number of ticks (iterations >= 0)
\* is over it has returned and the tick counter of the board is iterations
\* further than when run was called; on a new simulation, whose counter is
\* 0, it equals iterations.
C27_RunAdvancesByIterations ==
  (RunOver /\ run.iterations >= 0) =>
    (pc = "idle" /\ err = "none" /\ boardTime = run.from + run.iterations)

\* ----------------------------------------------------------------- Species
MaxSpecies == 2        \* Species objects created in one run of the class

\* p1 and p2 a caller passes, in 64ths, and t1 and t2.
Probabilities == {-32, 0, 64, 96}

Times == {-1, 0, 2}

\* math.e ** (math.log(p) / t): math.log raises ValueError for p <= 0 and the
\* division ZeroDivisionError for t = 0; the argument p is evaluated first.
\* The value is the t-th root of p, kept as the pair <<p, t>> it is taken from.
perTick(p, t) ==
  IF p <= 0 THEN [err |-> "ValueError", value |-> <<0, 0>>]
  ELSE IF t = 0 THEN [err |-> "ZeroDivisionError", value |-> <<0, 0>>]
  ELSE [err |-> "none", value |-> <<p, t>>]

\* A counter that stays where it is.
nextSpeciesIDSame(counter) == counter

\* Species.speciesID += 1, the last statement of Species.__init__.
nextSpeciesID(counter) == counter + 1

\* Species.__init__ with the class counter at counter: the exception, the
\* object and the class counter afterwards.  An exception leaves the
\* constructor before the counter is incremented.
SpeciesInit(counter, parentID, p1, p2, t1, t2, ns, conNDD, hetNDD) ==
  LET seed == perTick(p1, t1)
      adult == perTick(p2, t2) IN
  IF seed.err # "none"
    THEN [err |-> seed.err, species |-> None, counter |-> counter]
  ELSE IF adult.err # "none"
    THEN [err |-> adult.err, species |-> None, counter |-> counter]
  ELSE [err |-> "none",
        species |-> [speciesID |-> counter, parentID |-> parentID,
                     t1 |-> t1, p1 |-> p1, seedPerTick |-> seed.value,
                     t2 |-> t2, p2 |-> p2, adultPerTick |-> adult.value,
                     ns |-> ns, conNDD |-> conNDD, hetNDD |-> hetNDD],
        counter |-> nextSpeciesID(counter)]

\* The class as the module defines it: counter 1, no object yet.
InitSpecies ==
  /\ classSpeciesID = 1
  /\ created = << >>
  /\ construct = NoConstruct
  /\ run = NoRun
  /\ build = NoBuild
  /\ boardsUsed = 0
  /\ file = NoFile
  /\ boomerModel = FALSE
  /\ printFreq = Every(PrintFreq)
  /\ individual = None
  /\ call = NoTick
  /\ nextOid = 1
  /\ arr = PlantArray(StorageLimit)
  /\ hist = NoCall
  /\ made = 0
  /\ ticks = 0
  /\ board = [c \in Cells |-> PlantArray(StorageLimit)]
  /\ seedBoard = [c \in Cells |-> PlantArray(StorageLimit)]
  /\ boardTime = 0
  /\ newNeighborDicts = NoDicts
  /\ pc = "idle"
  /\ cur = 0
  /\ err = "none"
  /\ tickStart = board
  /\ lastUpdate = NoUpdate

\* Species(0, p1, p2, t1, t2, 1, 0, 0); the caller keeps the object when the
\* constructor returns and goes on when it raises.
CallSpecies ==
  /\ Len(created) < MaxSpecies
  /\ \E p1 \in Probabilities, p2 \in Probabilities, t1 \in Times, t2 \in Times :
       \E res \in {SpeciesInit(classSpeciesID, 0, p1, p2, t1, t2, 1, 0, 0)} :
         /\ classSpeciesID' = res.counter
         /\ created' = IF res.err = "none" THEN Append(created, res.species)
                       ELSE created
         /\ construct' = [op |-> "Species", p1 |-> p1, p2 |-> p2, t1 |-> t1,
                          t2 |-> t2, err |-> res.err, counter |-> classSpeciesID,
                          species |-> res.species]
  /\ UNCHANGED <<bvars, hvars, pvars, boomerModel, printFreq, run, build,
                 boardsUsed, file, nextOid>>

NextSpecies == CallSpecies

\* The class Species driven by a caller who constructs objects one after
\* another, with valid and invalid arguments.
SpecSpecies == InitSpecies /\ [][NextSpecies]_vars

\* C28: a construction fails with an error exactly when p1 or p2 lies outside
\* (0, 1] or t1 or t2 is zero or negative, and succeeds otherwise.
ValidParameters(c) ==
  /\ c.p1 > 0 /\ c.p1 <= 64
  /\ c.p2 > 0 /\ c.p2 <= 64
  /\ c.t1 > 0
  /\ c.t2 > 0

C28_InvalidParametersRejected ==
  construct.op = "Species" =>
    ((construct.err # "none") <=> ~ValidParameters(construct))

\* C29: any two Species created successfully have different ids, and the one
\* created later has the larger id, whatever constructions, failed ones
\* included, the caller makes; the class counter lies above every id given.
C29_SpeciesIdsIncrease ==
  /\ \A i \in 1..Len(created) : \A j \in 1..Len(created) :
       i < j => created[i].speciesID < created[j].speciesID
  /\ \A i \in 1..Len(created) : created[i].speciesID < classSpeciesID

\* Two objects exist and the latest construction succeeded and took the id
\* that follows its predecessor's.
C29_Witness ==
  /\ Len(created) >= 2
  /\ construct.op = "Species"
  /\ construct.err = "none"
  /\ construct.species = created[Len(created)]
  /\ created[Len(created)].speciesID = created[Len(created) - 1].speciesID + 1

\* A construction that raised left the class counter and the objects alone.
C29_WitnessFailed ==
  /\ Len(created) >= 1
  /\ construct.op = "Species"
  /\ construct.err # "none"
  /\ classSpeciesID = construct.counter

\* ---------------------------------------------------- the one-founder board
ScenarioLimit == 50    \* storageLimit of the scenario's board
ScenarioTicks == 1     \* ticks of Board.update the scenario makes

Centre == <<1, 1>>

\* The cell the loops visit n-th on a board of side boardLength.
CellAtOn(n, boardLength) == <<n \div boardLength, n % boardLength>>

\* Mutant of InBoundsOn: the cells on the border do not count as on the board.
InBoundsInterior(x, y, boardLength) ==
  (x > 0) /\ (x < boardLength - 1) /\ (y > 0) /\ (y < boardLength - 1)

\* The test of lines 262-263 of Board.update on a board of side boardLength.
InBoundsOn(x, y, boardLength) ==
  (x > -1) /\ (x < boardLength) /\ (y > -1) /\ (y < boardLength)

\* The displacements of the kernel on the board of side WideLength, up to
\* what they do: from every cell some land on the board and some leave it.
WideOffsets ==
  ((-(WideLength - 1))..(WideLength - 1)) \X ((-(WideLength - 1))..(WideLength - 1))

stagedOutcome(out, to, res) ==
  [sb |-> [out.sb EXCEPT ![to] = res.arr], err |-> res.err]

\* Line 264: the staging cell at `to` takes the seed in; out is the staging
\* board and the exception so far.
stagedAt(out, to, seed, r) ==
  stagedOutcome(out, to, stageSeed(out.sb[to], seed, r))

\* The dispersal loop of Board.update (lines 256-264) on a board of side
\* boardLength (see disperseLoop).
RECURSIVE disperseLoopOn(_, _, _, _, _, _, _)
disperseLoopOn(out, seeds, k, cell, offs, rs, boardLength) ==
  IF k > Len(seeds) \/ out.err # "none" THEN out
  ELSE disperseLoopOn(
         IF InBoundsOn(cell[1] + offs[k][1], cell[2] + offs[k][2], boardLength)
         THEN stagedAt(out, <<cell[1] + offs[k][1], cell[2] + offs[k][2]>>,
                       seeds[k], rs[k])
         ELSE out,
         seeds, k + 1, cell, offs, rs, boardLength)

disperseOn(sb, seeds, cell, offs, rs, boardLength) ==
  disperseLoopOn([sb |-> sb, err |-> "none"], seeds, 1, cell, offs, rs, boardLength)

\* A board of side WideLength whose centre holds one resident Adult of the
\* scenario's species, put there by addPlant; nothing is staged.
InitScenario ==
  /\ boomerModel \in BOOLEAN
  /\ printFreq = Every(PrintFreq)
  /\ classSpeciesID = ScenarioSpecies.speciesID + 1
  /\ created = Append(SpeciesList, ScenarioSpecies)
  /\ construct = NoConstruct
  /\ run = NoRun
  /\ build = NoBuild
  /\ boardsUsed = 0
  /\ file = NoFile
  /\ \E age \in 0..MaxAge :
       board = [c \in WideCells |->
                  IF c = Centre
                  THEN addPlant(PlantArray(ScenarioLimit),
                                Adult(ScenarioSpecies.speciesID, age, 1), 0).arr
                  ELSE PlantArray(ScenarioLimit)]
  /\ seedBoard = [c \in WideCells |-> PlantArray(ScenarioLimit)]
  /\ boardTime = 0
  /\ newNeighborDicts = [c \in WideCells |-> EmptyDict]
  /\ pc = "idle"
  /\ cur = 0
  /\ err = "none"
  /\ tickStart = board
  /\ lastUpdate = NoUpdate
  /\ nextOid = 2
  /\ arr = PlantArray(StorageLimit)
  /\ hist = NoCall
  /\ made = 0
  /\ ticks = 0
  /\ individual = None
  /\ call = NoTick

\* Board.update, lines 241-247, on the board of side WideLength (see StartTick).
WideStartTick(maxTime) ==
  /\ pc = "idle"
  /\ boardTime < maxTime
  /\ IF snapshotDue(boardTime, printFreq)
     THEN /\ err' = saveNeighborDicts(board, boomerModel).err
          /\ pc' = "raised"
          /\ UNCHANGED <<newNeighborDicts, boardTime, cur, tickStart, lastUpdate>>
     ELSE /\ newNeighborDicts' = makeNeighborDictsOn(board, boomerModel, WideLength)
          /\ boardTime' = boardTime + 1
          /\ pc' = "cells"
          /\ cur' = 0
          /\ tickStart' = board
          /\ lastUpdate' = NoUpdate
          /\ err' = err
  /\ UNCHANGED <<board, seedBoard, config, nextOid, hvars, pvars>>

\* Board.update, lines 251-264, on the board of side WideLength (see
\* AdvanceCell).  hist keeps the seeds of the latest tile that produced some
\* and the displacements drawn for them.
WideAdvanceCell ==
  /\ pc = "cells"
  /\ \E c \in {CellAtOn(cur, WideLength)} :
     \E draws \in [1..Len(board[c].storage) -> Draws] :
     \E u \in {update(board[c], newNeighborDicts[c], draws, e, nextOid) :
                 e \in randRange(board[c])} :
       /\ lastUpdate' = [cell |-> c, neighborData |-> newNeighborDicts[c],
                         atCall |-> makeNeighborDictsOn(board, boomerModel, WideLength)[c]]
       /\ IF u.err # "none"
          THEN /\ board' = [board EXCEPT ![c] = u.arr]
               /\ err' = u.err
               /\ pc' = "raised"
               /\ nextOid' = u.oid
               /\ UNCHANGED <<seedBoard, cur, hist>>
          ELSE \E newSeeds \in {produceSeeds(u.arr, boomerModel, u.oid)} :
               \E offs \in [1..Len(newSeeds.storage) -> WideOffsets],
                  rs \in [1..Len(newSeeds.storage) ->
                            IF boomerModel THEN {0, ScenarioLimit - 1} ELSE {0}] :
               \E out \in {disperseOn(seedBoard, newSeeds.storage, c, offs, rs,
                                      WideLength)} :
                 /\ board' = [board EXCEPT ![c] = u.arr]
                 /\ seedBoard' = out.sb
                 /\ nextOid' = u.oid + Len(newSeeds.storage)
                 /\ err' = out.err
                 /\ hist' = IF Len(newSeeds.storage) > 0
                            THEN [NoCall EXCEPT !.op = "disperse", !.src = newSeeds,
                                                !.offs = offs]
                            ELSE hist
                 /\ IF out.err # "none"
                    THEN pc' = "raised" /\ cur' = cur
                    ELSE IF cur + 1 < WideLength * WideLength
                         THEN pc' = "cells" /\ cur' = cur + 1
                         ELSE pc' = "merge" /\ cur' = 0
  /\ UNCHANGED <<boardTime, config, newNeighborDicts, tickStart, arr, made, ticks, pvars>>

\* Board.update, lines 271-273, on the board of side WideLength (see MergeCell).
WideMergeCell ==
  /\ pc = "merge"
  /\ \E c \in {CellAtOn(cur, WideLength)} :
     \E r \in randRange(board[c]) :
     \E m \in {mergeArray(board[c], seedBoard[c], r)} :
       /\ board' = [board EXCEPT ![c] = m.arr]
       /\ err' = m.err
       /\ IF m.err # "none"
          THEN pc' = "raised" /\ cur' = cur /\ seedBoard' = seedBoard
          ELSE /\ seedBoard' = [seedBoard EXCEPT ![c] = clear(seedBoard[c])]
               /\ IF cur + 1 < WideLength * WideLength
                  THEN pc' = "merge" /\ cur' = cur + 1
                  ELSE pc' = "idle" /\ cur' = 0
  /\ UNCHANGED <<boardTime, config, newNeighborDicts, nextOid, tickStart,
                 lastUpdate, hvars, pvars>>

NextScenario == WideStartTick(ScenarioTicks) \/ WideAdvanceCell \/ WideMergeCell

\* One tick of Board.update on the board with one resident Adult at its centre.
SpecScenario == InitScenario /\ [][NextScenario]_vars

\* The plants held by the containers of the grid brd, residents included.
PlantsIn(brd) ==
  UNION {{brd[c].storage[k] : k \in 1..Len(brd[c].storage)}
           \cup (IF brd[c].hasAdult THEN {brd[c].currentAdult} ELSE {}) :
         c \in DOMAIN brd}

\* The founder of the scenario is the object with identity 1; every other
\* plant of the live or the staging board is an offspring.
Offspring == {p \in PlantsIn(board) \cup PlantsIn(seedBoard) : p.oid # 1}

TickDone == pc = "idle" /\ boardTime = ScenarioTicks

CentreKeepsResident ==
  /\ board[Centre].hasAdult
  /\ board[Centre].currentAdult.kind = "Adult"
  /\ board[Centre].currentAdult.oid = 1
  /\ board[Centre].currentAdult.age = tickStart[Centre].currentAdult.age + 1
  /\ \E k \in 1..Len(board[Centre].storage) :
       board[Centre].storage[k] = board[Centre].currentAdult

\* The cell the one seed of the tick was sent to.
SeedTarget == <<Centre[1] + hist.offs[1][1], Centre[2] + hist.offs[1][2]>>

\* The seed reached a cell of the board that takes it in at the merge: any
\* cell in juvenile dispersal, any cell but the resident's in adult dispersal.
SeedKept ==
  /\ SeedTarget \in WideCells
  /\ ~(boomerModel /\ SeedTarget = Centre)

\* C31 as stated: after the tick exactly one offspring exists on the board and
\* the centre still holds its original resident Adult.
C31_OneOffspringAfterTick ==
  TickDone => (Cardinality(Offspring) = 1 /\ CentreKeepsResident)

\* C31, amended: after the tick the centre still holds its original resident
\* Adult, one tick older, and the tick has produced one seed; the seed is on
\* the live board, at the cell it was sent to, when that cell is on the board
\* (and, in adult dispersal, is not the resident's cell), and no offspring
\* exists otherwise.
C31_OneOffspringIfItLands ==
  TickDone =>
    /\ err = "none"
    /\ CentreKeepsResident
    /\ hist.op = "disperse" /\ Len(hist.src.storage) = 1
    /\ PlantsIn(seedBoard) = {}
    /\ IF SeedKept
       THEN /\ Offspring = {hist.src.storage[1]}
            /\ \E k \in 1..Len(board[SeedTarget].storage) :
                 board[SeedTarget].storage[k] = hist.src.storage[1]
            /\ hist.src.storage[1].age = 0
            /\ hist.src.storage[1].species = ScenarioSpecies.speciesID
            /\ hist.src.storage[1].kind = IF boomerModel THEN "Adult" ELSE "Juvenile"
       ELSE Offspring = {}

\* The tick is done and the seed left the board.
C31_Witness ==
  /\ TickDone
  /\ SeedTarget \notin WideCells
  /\ Offspring = {}

\* The tick is done and the seed is on a cell next to the centre.
C31_WitnessLanded ==
  /\ TickDone
  /\ SeedKept
  /\ SeedTarget # Centre
  /\ Cardinality(Offspring) = 1

\* ---------------------------------------------------- a staging container
\* A new container of any storageLimit up to StorageLimit, as the staging
\* board and produceSeeds build them.
InitStaging ==
  /\ boomerModel \in BOOLEAN
  /\ printFreq = Every(PrintFreq)
  /\ CatalogueCreated
  /\ \E storageLimit \in 1..StorageLimit : arr = PlantArray(storageLimit)
  /\ hist = NoCall
  /\ made = 0
  /\ ticks = 0
  /\ individual = None
  /\ call = NoTick
  /\ nextOid = 1
  /\ board = [c \in Cells |-> PlantArray(StorageLimit)]
  /\ seedBoard = [c \in Cells |-> PlantArray(StorageLimit)]
  /\ boardTime = 0
  /\ newNeighborDicts = NoDicts
  /\ pc = "idle"
  /\ cur = 0
  /\ err = "none"
  /\ tickStart = board
  /\ lastUpdate = NoUpdate

NextStaging == CallAddPlant \/ CallAddAdult

\* One container filled by a caller through addPlant and addAdult.
SpecStaging == InitStaging /\ [][NextStaging]_vars

\* C32: addAdult appends the plant when the list is below storageLimit and
\* changes nothing at capacity; hasAdult, currentAdult, the count cache and
\* storageLimit stay as they were, and a list within storageLimit stays within.
C32_AddAdultAppendsBelowCapacity ==
  hist.op = "addAdult" =>
    /\ arr.hasAdult = hist.pre.hasAdult
    /\ arr.currentAdult = hist.pre.currentAdult
    /\ arr.dictionaryFormat = hist.pre.dictionaryFormat
    /\ arr.storageLimit = hist.pre.storageLimit
    /\ arr.storage = IF Len(hist.pre.storage) < hist.pre.storageLimit
                     THEN hist.pre.storage \o <<hist.plant>>
                     ELSE hist.pre.storage
    /\ Len(hist.pre.storage) <= hist.pre.storageLimit
         => Len(arr.storage) <= arr.storageLimit

\* addAdult was called on a full list and left the container as it was.
C32_Witness ==
  /\ hist.op = "addAdult"
  /\ Len(hist.pre.storage) = hist.pre.storageLimit
  /\ arr = hist.pre

\* addAdult appended to a list that holds a resident adult.
C32_WitnessAppended ==
  /\ hist.op = "addAdult"
  /\ hist.pre.hasAdult
  /\ Len(arr.storage) = Len(hist.pre.storage) + 1
  /\ arr.storage[Len(arr.storage)] = hist.plant

\* C33: at every tick boundary no plant object is an element of the lists of
\* two different containers, be they two live cells, two staging cells or a
\* live and a staging cell.
ListOf(grid, c) == {grid[c].storage[k] : k \in 1..Len(grid[c].storage)}

Containers == ({"live"} \X Cells) \cup ({"staging"} \X Cells)

ListAt(where) ==
  IF where[1] = "live" THEN ListOf(board, where[2]) ELSE ListOf(seedBoard, where[2])

C33_NoPlantInTwoContainers ==
  pc = "idle" =>
    \A a \in Containers : \A b \in Containers :
      a # b => \A p \in ListAt(a) : \A q \in ListAt(b) : p.oid # q.oid

\* A tick boundary after plants moved from the staging board to the live
\* board in two ticks: two live cells hold plants and nothing is staged.
C33_Witness ==
  /\ pc = "idle"
  /\ boardTime >= 2
  /\ \E a \in Cells : \E b \in Cells :
       a # b /\ ListOf(board, a) # {} /\ ListOf(board, b) # {}
  /\ \A c \in Cells : ListOf(seedBoard, c) = {}

\* C34: every plant on the live board when a tick starts, the resident Adult
\* of a cell in particular, goes through the update of that tick: once every
\* cell is advanced it is gone (it died, or grew into a new Adult object) or
\* it is one tick older.
HeldBy(a) ==
  {a.storage[k] : k \in 1..Len(a.storage)}
    \cup (IF a.hasAdult THEN {a.currentAdult} ELSE {})

AdvanceDone == pc = "merge" /\ cur = 0

C34_EveryPlantTransitions ==
  AdvanceDone =>
    \A c \in Cells : \A p \in HeldBy(tickStart[c]) : \A q \in HeldBy(board[c]) :
      q.oid = p.oid => q.age = p.age + 1

\* C35: a plant that is staged (an offspring dispersed in this tick, a founder
\* staged by the constructor) is on no live cell; an iteration of the first
\* loop brings no staged plant onto the live board (what is new there is an
\* object the iteration created); an iteration of the merge loop brings onto
\* the live cell only plants staged for that cell, as they were staged (same
\* object, same age), and puts them into the list the next tick's update
\* goes through.
Oids(plants) == {p.oid : p \in plants}

StagedOn(grid) == UNION {HeldBy(grid[c]) : c \in Cells}

C35_ArrivalsNotAdvanced ==
  [][ /\ Oids(StagedOn(seedBoard')) \cap Oids(StagedOn(board')) = {}
      /\ pc = "cells" =>
           \A c \in Cells : \A q \in HeldBy(board'[c]) :
             q.oid \notin Oids(HeldBy(board[c])) => q.oid >= nextOid
      /\ pc = "merge" =>
           \A c \in Cells : \A q \in HeldBy(board'[c]) :
             q \notin HeldBy(board[c]) =>
               /\ c = CellAt(cur)
               /\ q \in ListOf(seedBoard, c)
               /\ q \in ListOf(board', c)
    ]_vars

\* A tick boundary of the second tick or later at which a live cell holds a
\* plant of age 0 that was not on the live board when the tick started: an
\* offspring dispersed and merged in this tick.
C35_Witness ==
  /\ pc = "idle"
  /\ boardTime >= 2
  /\ \E c \in Cells : \E q \in ListOf(board, c) :
       /\ q.age = 0
       /\ q.oid \notin Oids(StagedOn(tickStart))

\* C36: no step of a tick brings a species onto the grid: the species of the
\* plants held by the live and the staging cells after the step (list
\* elements and resident adults) are among those held before it.  So every
\* tick leaves the species it found or fewer, and an empty grid stays empty.
SpeciesPresent(live, staging) ==
  {p.species : p \in StagedOn(live) \cup StagedOn(staging)}

C36_NoSpontaneousGeneration ==
  [][SpeciesPresent(board', seedBoard') \subseteq SpeciesPresent(board, seedBoard)]_vars

\* A tick boundary at which new plants have been created since both species
\* were founded, and only the first species is left.
C36_Witness ==
  /\ pc = "idle"
  /\ boardTime >= 2
  /\ nextOid > 1 + Len(SpeciesList)
  /\ SpeciesPresent(board, seedBoard) = {SpeciesList[1].speciesID}
  /\ \E c \in Cells : \E q \in ListOf(board, c) : q.age = 0

\* ------------------------------------------------------------ construction
BuildLength == 3       \* largest boardLength a board is constructed with

\* Board.__init__ (lines 79-89) in adult-dispersal mode, entered with any
\* boardLength, storageLimit and startNumber up to boardLength squared; the
\* loop over the species is at the first species with an empty set coords.
InitBuild ==
  /\ boomerModel = TRUE
  /\ printFreq = Every(PrintFreq)
  /\ classSpeciesID = Len(SpeciesList) + 1
  /\ created = SpeciesList
  /\ construct = NoConstruct
  /\ run = NoRun
  /\ boardsUsed = 0
  /\ file = NoFile
  /\ \E boardLength \in 1..BuildLength, storageLimit \in 1..StorageLimit :
       /\ \E startNumber \in 0..(boardLength * boardLength) :
            build = [boardLength |-> boardLength, storageLimit |-> storageLimit,
                     startNumber |-> startNumber, i |-> 1, coords |-> {}]
       /\ board = [c \in CellsOf(boardLength) |-> PlantArray(storageLimit)]
       /\ seedBoard = [c \in CellsOf(boardLength) |-> PlantArray(storageLimit)]
       /\ newNeighborDicts = [c \in CellsOf(boardLength) |-> EmptyDict]
  /\ boardTime = 0
  /\ pc = "coords"
  /\ cur = 0
  /\ err = "none"
  /\ tickStart = board
  /\ lastUpdate = NoUpdate
  /\ nextOid = 1
  /\ arr = PlantArray(StorageLimit)
  /\ hist = NoCall
  /\ made = 0
  /\ ticks = 0
  /\ individual = None
  /\ call = NoTick

\* The values np.random.randint(0, boardLength - 1) returns: the upper end is
\* exclusive.
randintBelow(high) == 0..(high - 1)

\* One iteration of `while len(coords) < self.startNumber` (lines 93-95):
\* np.random.randint raises ValueError when its range is empty; else the pair
\* drawn is added to the set, which it may be in already.
DrawCoord ==
  /\ pc = "coords"
  /\ Cardinality(build.coords) < build.startNumber
  /\ IF randintBelow(build.boardLength - 1) = {}
     THEN /\ pc' = "raised"
          /\ err' = "ValueError"
          /\ build' = build
     ELSE /\ \E x \in randintBelow(build.boardLength - 1),
                y \in randintBelow(build.boardLength - 1) :
               build' = [build EXCEPT !.coords = @ \cup {<<x, y>>}]
          /\ UNCHANGED <<pc, err>>
  /\ UNCHANGED <<board, seedBoard, boardTime, newNeighborDicts, cur, tickStart,
                 lastUpdate, boomerModel, printFreq, svars, run, boardsUsed,
                 file, nextOid, hvars, pvars>>

\* The loop `for coord in coords` (lines 96-98) once the while loop is left,
\* and the step to the next species.
PlaceFounders ==
  /\ pc = "coords"
  /\ Cardinality(build.coords) >= build.startNumber
  /\ seedBoard' = placeAdults(seedBoard, build.coords,
                              SpeciesList[build.i].speciesID, nextOid)
  /\ nextOid' = nextOid + Cardinality(build.coords)
  /\ build' = [build EXCEPT !.i = @ + 1, !.coords = {}]
  /\ pc' = IF build.i = Len(SpeciesList) THEN "built" ELSE "coords"
  /\ UNCHANGED <<board, boardTime, newNeighborDicts, cur, err, tickStart,
                 lastUpdate, boomerModel, printFreq, svars, run, boardsUsed,
                 file, hvars, pvars>>

NextBuild == DrawCoord \/ PlaceFounders

\* Board.__init__ in adult-dispersal mode, step by step.
SpecBuild == InitBuild /\ [][NextBuild]_vars

\* The same with a random source that does not return forever only pairs the
\* set already holds while it can return another one.
SpecBuildFair == SpecBuild /\ WF_vars(NextBuild)

\* C37: the construction terminates, with founders of every species staged
\* on exactly startNumber distinct cells.
FounderCellsOf(speciesID) ==
  {c \in DOMAIN seedBoard :
     \E k \in 1..Len(seedBoard[c].storage) : seedBoard[c].storage[k].species = speciesID}

Built ==
  /\ pc = "built"
  /\ \A speciesID \in SpeciesIDs :
       Cardinality(FounderCellsOf(speciesID)) = build.startNumber

C37_ConstructionTerminates == <>Built

\* ------------------------------------------- the single-file implementation
\* PlantArray.addPlant of src/simulation.py on the same object; its count
\* cache, the attribute neighborDict, is held in the field dictionaryFormat.
\* r is the value random.randint draws an index from.
simulationAddPlant(self, plant, r) ==
  LET speciesID == plant.species
      d == self.dictionaryFormat
  IN
  IF plant.kind = "Adult" THEN
    IF self.hasAdult THEN Ok(self)
    ELSE
      LET counted == [self EXCEPT !.hasAdult = TRUE, !.currentAdult = plant,
                        !.dictionaryFormat =
                           IF speciesID \in DOMAIN d
                           THEN DictPut(d, speciesID, <<d[speciesID][1] + 1, d[speciesID][2]>>)
                           ELSE DictPut(d, speciesID, <<1, 0>>)]
      IN IF Len(self.storage) >= self.storageLimit THEN
           IF Len(self.storage) = 0 THEN Raise(counted, "ValueError")
           ELSE Ok([counted EXCEPT !.storage[(r % Len(self.storage)) + 1] = plant])
         ELSE Ok([counted EXCEPT !.storage = Append(self.storage, plant)])
  ELSE IF Len(self.storage) < self.storageLimit THEN
    Ok([self EXCEPT !.storage = Append(self.storage, plant),
          !.dictionaryFormat =
             IF speciesID \in DOMAIN d
             THEN DictPut(d, speciesID, <<d[speciesID][1], d[speciesID][2] + 1>>)
             ELSE DictPut(d, speciesID, <<0, 1>>)])
  ELSE Ok(self)

\* C38: on every cell state and every offered individual, with the same
\* eviction draw, addPlant of plants.py and addPlant of simulation.py end alike:
\* the same exception or none, the same occupant list, hasAdult, currentAdult
\* and count cache.
C38_ImplementationsAgree ==
  hist.op = "addPlant" =>
    simulationAddPlant(hist.pre, hist.plant, hist.r) = [arr |-> arr, err |-> hist.err]

\* C39: in adult-dispersal mode no Juvenile is held by any live or staging
\* list, and between two ticks every live list holds at most one individual,
\* which is the resident Adult of its cell.
JuvenilesOn(grid) ==
  {p \in UNION {HeldBy(grid[c]) : c \in DOMAIN grid} : p.kind = "Juvenile"}

LoneResident(a) ==
  /\ Len(a.storage) <= 1
  /\ Len(a.storage) = 1 =>
       /\ a.storage[1].kind = "Adult"
       /\ a.hasAdult
       /\ a.currentAdult = a.storage[1]

C39_AdultModeOneResidentPerCell ==
  boomerModel =>
    /\ JuvenilesOn(board) = {}
    /\ JuvenilesOn(seedBoard) = {}
    /\ pc = "idle" => \A c \in Cells : LoneResident(board[c])

\* Between two ticks of adult-dispersal mode one cell holds a resident that
\* has lived through a tick and another cell holds one that arrived as its
\* offspring.
C39_Witness ==
  /\ boomerModel
  /\ pc = "idle"
  /\ \E c, d \in Cells :
       /\ c # d
       /\ Len(board[c].storage) = 1 /\ board[c].currentAdult.age >= 1
       /\ Len(board[d].storage) = 1 /\ board[d].currentAdult.age = 0
       /\ board[d].currentAdult.species = board[c].currentAdult.species

\* C40: in juvenile-dispersal mode every Juvenile a live or staging list
\* holds is younger than the t1 of its species, and every Adult a live cell
\* holds, in its list or as its resident, has at least that age.
AgeMatchesStage(p, live) ==
  /\ p.kind = "Juvenile" => p.age < SpeciesOf(p.species).t1
  /\ (live /\ p.kind = "Adult") => p.age >= SpeciesOf(p.species).t1

C40_StageFollowsAge ==
  ~boomerModel =>
    \A c \in Cells :
      /\ \A p \in HeldBy(board[c]) : AgeMatchesStage(p, TRUE)
      /\ \A p \in HeldBy(seedBoard[c]) : AgeMatchesStage(p, FALSE)

\* A live list of juvenile-dispersal mode holds a Juvenile one tick short of
\* its t1 while a live cell holds as resident an Adult promoted at its own.
C40_Witness ==
  /\ ~boomerModel
  /\ \E c \in Cells : \E k \in 1..Len(board[c].storage) :
       /\ board[c].storage[k].kind = "Juvenile"
       /\ board[c].storage[k].age = SpeciesOf(board[c].storage[k].species).t1 - 1
       /\ board[c].storage[k].age >= 1
  /\ \E c \in Cells :
       /\ board[c].hasAdult
       /\ board[c].currentAdult.age >= SpeciesOf(board[c].currentAdult.species).t1

====
